---- MODULE Spec2Model ----
(***************************************************************************)
(* Model of the design-intake agent of Esmeralda_Discord_Bot               *)
(* (agents/design/agent.py, class DesignAgent): the per-thread state store *)
(* kept in state_store, the state recovery made for a thread without a     *)
(* record, the classifier call and the dispatch on the action it returns.  *)
(*                                                                         *)
(* A call of DesignAgent.handle is written as the sequence of operations   *)
(* it performs (reads, classifier call, Task Store calls, sends, store     *)
(* writes), in source order.  A handler is a task that yields at every     *)
(* await: a step runs it from one await to the next, and the handler of    *)
(* another message may run in between.                                     *)
(***************************************************************************)
EXTENDS Integers, Sequences, FiniteSets, TLC

VARIABLES
    state_store,   \* DesignAgent.state_store: thread -> record (Absent when no key)
    created,       \* Task Store: per thread, the records create_task has returned
    pre_boot,      \* per thread: channel.created_at < self.boot_time
    focus,         \* the thread whose messages the behaviour follows
    turn,          \* the handler that returned in the last step: thread, record
                   \* it read when it started, operations (NoTurn after other steps)
    tasks,         \* the handler tasks in flight
    disk,          \* the state file memory/design_intake_state.json
    io,            \* SpecDisk: the store call in progress or last made
    probe          \* the call of a function under test: its arguments and result

vars == <<state_store, created, pre_boot, focus, turn, tasks, disk, io, probe>>

----------------------------------------------------------------------------
(* Bounds and program constants *)

\* successful create_task calls explored per thread
MaxCreate == 2

\* agent.py:469  "if current_errors >= 2"
ErrorThreshold == 2

\* thread 1 stands for the allow-listed thread (agent.py:14), thread 2 for any other
Threads == {1, 2}
existing_exception_thread_ids == {1}

TaskNames == {"A", "B"}

----------------------------------------------------------------------------
(* Values *)

None == [src |-> "none", n |-> 0]
CsvUrl == [src |-> "csv", n |-> 0]
ApiUrl == [src |-> "api", n |-> 0]
Mine == [src |-> "mine", n |-> 0]     \* the url returned by this turn's create_task
TaskUrl(n) == [src |-> "task", n |-> n]

NoErrors == -1                         \* no "notion_errors" key in the record

Absent == [present |-> FALSE, state |-> "init", notion_url |-> None,
           notion_errors |-> NoErrors, updated_at |-> FALSE]

\* the dict handed to _set_thread_state
Data(st, url, errs) == [present |-> TRUE, state |-> st, notion_url |-> url,
                        notion_errors |-> errs, updated_at |-> FALSE]

NoText == <<>>
NoDate == [kind |-> "none", y |-> 0, m |-> 0, d |-> 0]
Date(y, m, d) == [kind |-> "date", y |-> y, m |-> m, d |-> d]
\* a deadline text with a time part, as "2026-02-02T10:00:00", of that day
DateTime(y, m, d) == [kind |-> "datetime", y |-> y, m |-> m, d |-> d]
\* a deadline text that is neither a date nor a date with a time
BadDate == [kind |-> "text", y |-> 0, m |-> 0, d |-> 0]

----------------------------------------------------------------------------
(* Deadline normalizer: agent.py:98-149 *)

IsLeap(y) == (y % 4 = 0 /\ y % 100 # 0) \/ y % 400 = 0

\* calendar.monthrange(year, month)[1]
MonthRange(y, m) ==
    IF m = 2 THEN (IF IsLeap(y) THEN 29 ELSE 28)
    ELSE IF m \in {4, 6, 9, 11} THEN 30 ELSE 31

Min(a, b) == IF a < b THEN a ELSE b

\* the day kept as it is, whatever the month holds
UnclampedDate(year, month, day) == Date(year, month, day)

_safe_date(year, month, day) == Date(year, month, Min(day, MonthRange(year, month)))

\* lines 98-107: the date that date.fromisoformat or, failing that,
\* datetime.fromisoformat(value).date() reads; NoDate (None) when both raise
_parse_iso_date(value) ==
    IF value.kind \in {"date", "datetime"} THEN Date(value.y, value.m, value.d)
    ELSE NoDate

\* candidate.isoformat(): the text YYYY-MM-DD of a date
isoformat(date) == Date(date.y, date.m, date.d)

\* datetime.date "<=": the comparison that also moves the reference day itself
DateLessOrEqual(a, b) ==
    \/ a.y < b.y
    \/ a.y = b.y /\ a.m < b.m
    \/ a.y = b.y /\ a.m = b.m /\ a.d <= b.d

\* datetime.date "<"
DateLess(a, b) ==
    \/ a.y < b.y
    \/ a.y = b.y /\ a.m < b.m
    \/ a.y = b.y /\ a.m = b.m /\ a.d < b.d

\* the deadline passed on as the classifier gave it
RawDeadline(deadline, reference_date) == deadline

\* the date moved into the reference year, never into the next one
DeadlineInReferenceYear(deadline, reference_date) ==
    IF deadline.kind \in {"date", "datetime"}
    THEN _safe_date(reference_date.y, deadline.m, deadline.d)
    ELSE deadline

\* every later year kept as written
DeadlineKeepsLaterYears(deadline, reference_date) ==
    LET parsed == _parse_iso_date(deadline)
        candidate == _safe_date(reference_date.y, parsed.m, parsed.d)
    IN IF deadline.kind = "none" THEN NoDate
       ELSE IF parsed = NoDate THEN deadline
       ELSE isoformat(
         IF parsed.y > reference_date.y THEN parsed
         ELSE IF DateLess(candidate, reference_date)
         THEN _safe_date(reference_date.y + 1, parsed.m, parsed.d)
         ELSE candidate)

_normalize_deadline(deadline, reference_date) ==
    LET parsed == _parse_iso_date(deadline)
    IN IF deadline.kind = "none" THEN NoDate
       ELSE IF parsed = NoDate THEN deadline
       ELSE isoformat(
         IF parsed.y < reference_date.y THEN
             LET candidate == _safe_date(reference_date.y, parsed.m, parsed.d)
             IN IF DateLess(candidate, reference_date)
                THEN _safe_date(reference_date.y + 1, parsed.m, parsed.d)
                ELSE candidate
         ELSE IF parsed.y = reference_date.y THEN
             LET candidate == _safe_date(parsed.y, parsed.m, parsed.d)
             IN IF DateLess(candidate, reference_date)
                THEN _safe_date(reference_date.y + 1, parsed.m, parsed.d)
                ELSE candidate
         ELSE IF parsed.y = reference_date.y + 1 THEN parsed
         ELSE
             LET candidate == _safe_date(reference_date.y, parsed.m, parsed.d)
             IN IF DateLess(candidate, reference_date)
                THEN _safe_date(reference_date.y + 1, parsed.m, parsed.d)
                ELSE candidate)

\* _reference_datetime(message).date(): the thread's creation date
ReferenceDate == Date(2026, 2, 2)

----------------------------------------------------------------------------
(* Project matcher: agent.py:160-171.  Texts are sequences of characters. *)

IsSpace(c) == c \in {" ", "\t", "\n"}

Upper == <<"A", "B", "E", "F", "M", "N", "O", "P", "S", "V", "X">>
LowerOf == <<"a", "b", "e", "f", "m", "n", "o", "p", "s", "v", "x">>

\* str.lower() on one character
LowerChar(c) ==
    IF \E i \in 1..Len(Upper) : Upper[i] = c
    THEN LowerOf[CHOOSE i \in 1..Len(Upper) : Upper[i] = c]
    ELSE c

LowerText(s) == [i \in 1..Len(s) |-> LowerChar(s[i])]

RECURSIVE SplitWords(_, _)
\* str.split(): the maximal runs of non-whitespace characters (cur is the run being read)
SplitWords(s, cur) ==
    IF s = <<>> THEN (IF cur = <<>> THEN <<>> ELSE <<cur>>)
    ELSE IF IsSpace(Head(s))
         THEN (IF cur = <<>> THEN SplitWords(Tail(s), <<>>)
               ELSE <<cur>> \o SplitWords(Tail(s), <<>>))
         ELSE SplitWords(Tail(s), Append(cur, Head(s)))

RECURSIVE JoinWords(_)
\* " ".join(words)
JoinWords(ws) ==
    IF ws = <<>> THEN <<>>
    ELSE IF Len(ws) = 1 THEN ws[1]
    ELSE ws[1] \o <<" ">> \o JoinWords(Tail(ws))

_canonical_project(value) == JoinWords(SplitWords(LowerText(value), <<>>))

NegativeProjects ==
    { <<"s","i","n"," ","p","r","o","y","e","c","t","o">>,
      <<"n","i","n","g","u","n","o">>,
      <<"n","/","a">> }

\* the canonical text returned in place of the option
MatchReturnsCanonical(project_raw, options) ==
    IF project_raw = NoText THEN NoText
    ELSE LET candidate == _canonical_project(project_raw)
         IN IF candidate = <<>> \/ candidate \in NegativeProjects THEN NoText
            ELSE IF \E i \in 1..Len(options) : _canonical_project(options[i]) = candidate
                 THEN candidate ELSE NoText

\* dict comprehension {canon(opt): opt for opt in options}: the last option wins
_match_project_option(project_raw, options) ==
    IF project_raw = NoText THEN NoText
    ELSE LET candidate == _canonical_project(project_raw)
         IN IF candidate = <<>> \/ candidate \in NegativeProjects THEN NoText
            ELSE LET hits == {i \in 1..Len(options) :
                                _canonical_project(options[i]) = candidate}
                 IN IF hits = {} THEN NoText
                    ELSE options[CHOOSE i \in hits : \A j \in hits : j <= i]

----------------------------------------------------------------------------
(* Operations of a turn.  Every operation of handle is one entry:           *)
(*   op      what is done ("set", "clear", "create", "send", "llm", ...)    *)
(*   kind    its outcome or the kind of message sent                        *)
(*   tag     send: the channel; create: the action that made the call;      *)
(*           llm: whether data has a title                                  *)
(*   flag    send: sent as the green embed; llm: feedback is non-empty      *)
(*   feedback   llm: the feedback of the answer ("text", "empty", "none")   *)
(*   rec     set: the dict written                                          *)
(*   project, deadline, url   the texts, dates and links carried            *)

Op(op, kind) == [op |-> op, kind |-> kind, tag |-> "", flag |-> FALSE,
                 feedback |-> "", rec |-> Absent, project |-> NoText,
                 deadline |-> NoDate, url |-> None]

Set(data) == [Op("set", data.state) EXCEPT !.rec = data]
Clear == Op("clear", "")
Send(kind) == [Op("send", kind) EXCEPT !.tag = "thread"]
SendTeam(kind) == [Op("send", kind) EXCEPT !.tag = "team"]
SendEmbed(kind) == [Op("send", kind) EXCEPT !.tag = "thread", !.flag = TRUE]

\* channel.send with an empty content: the request is made and the service
\* refuses it (HTTPException)
SendEmpty == [Op("send_empty", "empty_message") EXCEPT !.tag = "thread"]

\* operations at which the coroutine awaits (the event loop may run another task)
AwaitOps == {"history", "fetch_starter", "context", "fetch", "send", "send_fail",
             "send_empty", "history_del", "delete", "purge"}

----------------------------------------------------------------------------
(* State store: agent.py:73-84 *)

_get_thread_state(store, thread_id) == store[thread_id]

\* the fields given merged into the stored record
SetMerges(rec, data) ==
    [present |-> TRUE, state |-> data.state,
     notion_url |-> IF data.notion_url = None THEN rec.notion_url ELSE data.notion_url,
     notion_errors |-> IF data.notion_errors = NoErrors THEN rec.notion_errors
                       ELSE data.notion_errors,
     updated_at |-> TRUE]

\* the dict stored as handed over
SetThreadStateUnstamped(rec, data) == data

\* data = dict(data); data["updated_at"] = now; state_store[str(thread_id)] = data
_set_thread_state(rec, data) == [data EXCEPT !.updated_at = TRUE]

_clear_thread_state(rec) == Absent

\* every key of the store written, whichever thread the call names
StoreAfterAll(store, thread_id, rec) == [t \in DOMAIN store |-> rec]

\* state_store[str(thread_id)] = data / state_store.pop(str(thread_id), None)
StoreAfter(store, thread_id, rec) == [store EXCEPT ![thread_id] = rec]

EmptyStore == [t \in Threads |-> Absent]

----------------------------------------------------------------------------------------------------------------------------------------
(* The state file: agent.py:49-71.  A JSON value is a string, a number or   *)
(* (for the links) a string that names a link; a JSON object is the list of *)
(* the members it holds.                                                    *)

JString(k, s) == [key |-> k, t |-> "string", s |-> s, n |-> 0, u |-> None]
JNumber(k, n) == [key |-> k, t |-> "number", s |-> "", n |-> n, u |-> None]
JLink(k, u) == [key |-> k, t |-> "string", s |-> "link", n |-> 0, u |-> u]

\* json.dump of one record: the keys the dict holds
DumpRecord(rec) ==
    <<JString("state", rec.state)>>
    \o (IF rec.notion_url # None THEN <<JLink("notion_url", rec.notion_url)>> ELSE <<>>)
    \o (IF rec.notion_errors # NoErrors
        THEN <<JNumber("notion_errors", rec.notion_errors)>> ELSE <<>>)
    \o (IF rec.updated_at THEN <<JString("updated_at", "isoformat")>> ELSE <<>>)

HasKey(obj, k) == \E i \in 1..Len(obj) : obj[i].key = k
Member(obj, k) == obj[CHOOSE i \in 1..Len(obj) : obj[i].key = k]

\* json.load of one record, read back with dict.get as handle does
LoadRecord(obj) ==
    [present |-> TRUE,
     state |-> IF HasKey(obj, "state") THEN Member(obj, "state").s ELSE "init",
     notion_url |-> IF HasKey(obj, "notion_url") THEN Member(obj, "notion_url").u
                    ELSE None,
     notion_errors |-> IF HasKey(obj, "notion_errors") THEN Member(obj, "notion_errors").n
                       ELSE NoErrors,
     updated_at |-> HasKey(obj, "updated_at")]

NoFile == [kind |-> "missing", text |-> <<>>]
\* the file after open(path, "w") and before json.dump has written it all
PartialFile == [kind |-> "partial", text |-> <<>>]

\* lines 63-71: what a completed json.dump(self.state_store, f) leaves
_save_state(store) ==
    [kind |-> "json",
     text |-> [t \in {u \in DOMAIN store : store[u].present} |-> DumpRecord(store[t])]]

\* lines 49-61: {} for a missing file and for one json.load rejects
_load_state(file) ==
    IF file.kind = "json"
    THEN [t \in Threads |-> IF t \in DOMAIN file.text THEN LoadRecord(file.text[t])
                             ELSE Absent]
    ELSE EmptyStore

----------------------------------------------------------------------------
(* State recovery: agent.py:26-47, 189-228 *)

\* a message of channel.history: who wrote it and which marker phrase it contains
Msg(bot, text) == [bot |-> bot, text |-> text]

RECURSIVE ScanHistory(_)
\* the loop of _recover_state_from_history over the messages, newest first:
\* the first bot-authored message decides, whatever follows it
ScanHistory(msgs) ==
    IF msgs = <<>> THEN "init"
    ELSE IF Head(msgs).bot
         THEN IF Head(msgs).text = "delete" THEN "waiting_delete"
              ELSE IF Head(msgs).text = "project" THEN "waiting_task_details"
              ELSE IF Head(msgs).text = "created" THEN "approved"
              ELSE "init"
         ELSE ScanHistory(Tail(msgs))

\* history(limit=10); an exception of the fetch is caught and gives "init"
HistoryLimit == 10

_recover_state_from_history(hist) ==
    IF hist.ok THEN ScanHistory(SubSeq(hist.msgs, 1, Min(Len(hist.msgs), HistoryLimit)))
    ELSE "init"

Row(thread_id, notion_url, status) ==
    [thread_id |-> thread_id, notion_url |-> notion_url, status |-> status]

RECURSIVE ScanCsv(_, _)
ScanCsv(rows, thread_id) ==
    IF rows = <<>> THEN [url |-> None, status |-> "none"]
    ELSE IF Head(rows).thread_id = thread_id
         THEN [url |-> Head(rows).notion_url, status |-> Head(rows).status]
         ELSE ScanCsv(Tail(rows), thread_id)

\* returns (notion_url, status); (None, None) when the file is missing
_get_notion_url_from_csv(csv, thread_id) ==
    IF csv.exists THEN ScanCsv(csv.rows, thread_id)
    ELSE [url |-> None, status |-> "none"]

\* a link of the opening message: does it contain "/9b1d386dbae1", "emerald-dev"
Link(db, ws) == [db |-> db, ws |-> ws]
StarterUrl(link) == [src |-> "starter",
                     n |-> (IF link.db THEN 2 ELSE 0) + (IF link.ws THEN 1 ELSE 0)]

\* the first link decides; it is rejected only when it names the workspace
\* but not the database
_extract_notion_url_from_starter(starter) ==
    IF ~starter.ok \/ starter.links = <<>> THEN None
    ELSE LET first_url == starter.links[1]
         IN IF ~first_url.db /\ first_url.ws THEN None
            ELSE StarterUrl(first_url)

----------------------------------------------------------------------------
(* Inputs of the recovery, as the transport, the mapping file and the Task  *)
(* Store answer them in one turn                                            *)

Histories ==
    { [ok |-> TRUE, msgs |-> <<>>],
      [ok |-> FALSE, msgs |-> <<>>],
      [ok |-> TRUE, msgs |-> <<Msg(FALSE, "other"), Msg(TRUE, "project")>>],
      [ok |-> TRUE, msgs |-> <<Msg(TRUE, "delete")>>],
      [ok |-> TRUE, msgs |-> <<Msg(TRUE, "created")>>],
      [ok |-> TRUE, msgs |-> <<Msg(TRUE, "other"), Msg(TRUE, "project")>>] }

OtherThread(t) == CHOOSE u \in Threads : u # t

CsvFiles(t) ==
    { [exists |-> FALSE, rows |-> <<>>],
      [exists |-> TRUE, rows |-> <<Row(t, CsvUrl, "linked")>>],
      [exists |-> TRUE, rows |-> <<Row(t, None, "ignored")>>],
      [exists |-> TRUE, rows |-> <<Row(OtherThread(t), CsvUrl, "linked"),
                                   Row(t, None, "pending")>>] }

Starters ==
    { [ok |-> FALSE, links |-> <<>>],
      [ok |-> TRUE, links |-> <<>>],
      [ok |-> TRUE, links |-> <<Link(TRUE, TRUE)>>],
      [ok |-> TRUE, links |-> <<Link(FALSE, TRUE), Link(TRUE, TRUE)>>],
      [ok |-> TRUE, links |-> <<Link(FALSE, FALSE)>>] }

RecoveryInputs(t) ==
    [hist : Histories, csv : CsvFiles(t), api : {None, ApiUrl}, starter : Starters]

----------------------------------------------------------------------------
(* handle, lines 246-316: entry and recovery.  Each gives the operations    *)
(* performed and how the turn goes on: "stop" (return), "recover" or        *)
(* "classify".                                                              *)

Part(effs, cont) == [effs |-> effs, cont |-> cont]

\* the allow-list reset applied to every short-circuited state
EntryResetsApproved(thread_id, state_entry) ==
    LET current_state == state_entry.state
    IN IF current_state \in {"approved", "ignored_existing"}
       THEN IF thread_id \in existing_exception_thread_ids
            THEN Part(<<Clear>>, "recover")
            ELSE Part(<<>>, "stop")
       ELSE IF current_state = "init" THEN Part(<<>>, "recover")
       ELSE Part(<<>>, "classify")

\* the short-circuit without the allow-list
EntryWithoutAllowList(thread_id, state_entry) ==
    LET current_state == state_entry.state
    IN IF current_state \in {"approved", "ignored_existing"}
       THEN Part(<<>>, "stop")
       ELSE IF current_state = "init" THEN Part(<<>>, "recover")
       ELSE Part(<<>>, "classify")

\* lines 249-264
Entry(thread_id, state_entry) ==
    LET current_state == state_entry.state
    IN IF current_state \in {"approved", "ignored_existing"}
       THEN IF current_state = "ignored_existing"
               /\ thread_id \in existing_exception_thread_ids
            THEN Part(<<Clear>>, "recover")
            ELSE Part(<<>>, "stop")
       ELSE IF current_state = "init" THEN Part(<<>>, "recover")
       ELSE Part(<<>>, "classify")

\* lines 305-316
BootCheck(thread_id, created_before_boot) ==
    IF created_before_boot /\ thread_id \notin existing_exception_thread_ids
    THEN Part(<<Set(Data("ignored_existing", None, NoErrors))>>, "stop")
    ELSE Part(<<>>, "classify")

\* lines 297-303
RecoverFromStarter(thread_id, rin, created_before_boot) ==
    LET notion_url_from_starter == _extract_notion_url_from_starter(rin.starter)
        fetched == [Op("fetch_starter",
                       IF notion_url_from_starter = None THEN "none" ELSE "url")
                    EXCEPT !.url = notion_url_from_starter]
        rest == BootCheck(thread_id, created_before_boot)
    IN IF notion_url_from_starter # None
       THEN Part(<<fetched, Set(Data("approved", notion_url_from_starter, NoErrors))>>,
                 "stop")
       ELSE Part(<<fetched>> \o rest.effs, rest.cont)

\* lines 284-295 (a thread always belongs to a guild)
RecoverFromApi(thread_id, rin, created_before_boot) ==
    LET existing_url == rin.api
        looked == [Op("lookup", IF existing_url = None THEN "none" ELSE "url")
                   EXCEPT !.url = existing_url]
        rest == RecoverFromStarter(thread_id, rin, created_before_boot)
    IN IF existing_url # None
       THEN Part(<<looked, Set(Data("approved", existing_url, NoErrors))>>, "stop")
       ELSE Part(<<looked>> \o rest.effs, rest.cont)

\* the mapping read and its link not adopted
RecoverFromCsvNoAdopt(thread_id, rin, created_before_boot) ==
    LET row == _get_notion_url_from_csv(rin.csv, thread_id)
        read == [Op("csv", IF row.url # None THEN "url"
                           ELSE IF row.status = "ignored" THEN "ignored" ELSE "none")
                 EXCEPT !.url = row.url]
        rest == RecoverFromApi(thread_id, rin, created_before_boot)
    IN Part(<<read>> \o rest.effs, rest.cont)

\* lines 273-282
RecoverFromCsv(thread_id, rin, created_before_boot) ==
    LET row == _get_notion_url_from_csv(rin.csv, thread_id)
        read == [Op("csv", IF row.url # None THEN "url"
                           ELSE IF row.status = "ignored" THEN "ignored" ELSE "none")
                 EXCEPT !.url = row.url]
        rest == RecoverFromApi(thread_id, rin, created_before_boot)
    IN IF row.url # None
       THEN Part(<<read, Set(Data("approved", row.url, NoErrors))>>, "stop")
       ELSE IF row.status = "ignored"
       THEN Part(<<read, Set(Data("ignored_existing", None, NoErrors))>>, "stop")
       ELSE Part(<<read>> \o rest.effs, rest.cont)

\* lines 264-316
Recover(thread_id, rin, created_before_boot) ==
    LET recovered_state == _recover_state_from_history(rin.hist)
        scanned == Op("history", recovered_state)
        rest == RecoverFromCsv(thread_id, rin, created_before_boot)
    IN IF recovered_state = "init"
       THEN Part(<<scanned>> \o rest.effs, rest.cont)
       ELSE IF recovered_state = "approved"
       THEN Part(<<scanned, Set(Data("approved", None, NoErrors))>>, "stop")
       ELSE Part(<<scanned, Set(Data(recovered_state, None, NoErrors))>> \o rest.effs,
                 rest.cont)

----------------------------------------------------------------------------
(* Inputs of the dispatch: what the classifier returns, what the Task Store *)
(* and the transport answer                                                 *)

\* bot.notion.get_multi_select_options(db, "Proyecto"): the names of the
\* options of the database's property "Proyecto".  agent.py:155 and
\* tests/test_notion_integration.py:27 call it; services/notion.py has no
\* definition of it.
ProjectOptions == << <<"V","e","x">>, <<"E","m">> >>

\* lines 151-158: the list fetched, or [] when Notion is off or the call
\* raises, which line 156 catches; with the NotionHandler of
\* services/notion.py as it is the call raises AttributeError every time
_get_project_options(fetched) == IF fetched THEN ProjectOptions ELSE <<>>

OptionSets == {_get_project_options(fetched) : fetched \in BOOLEAN}

\* data.project of the classifier: none, one that matches "Vex", one that matches nothing
RawProjects == {NoText, <<" ","v","E","x">>, <<"F","o","o">>}

\* data.deadline: none, a past leap day, a date after the reference date
Deadlines == {NoDate, Date(2024, 2, 29), Date(2026, 3, 1)}

\* the feedback of an answer: a text, the empty text (for the first
\* classification also a missing key: line 354 defaults to ""), or None (JSON
\* null; for the second classification also a missing key, line 540)
FeedbackValues == {"text", "empty", "none"}

LlmData(project, deadline, title, feedback) ==
    [project |-> project, deadline |-> deadline, title |-> title, feedback |-> feedback]

NoData == LlmData(NoText, NoDate, FALSE, "text")

\* the feedback is a text that channel.send accepts
HasText(data) == data.feedback = "text"

\* the classifier call (llm2: the second call made by validate_edit)
Llm(op, kind, data) ==
    [Op(op, kind) EXCEPT !.project = data.project, !.deadline = data.deadline,
                         !.tag = IF data.title THEN "title" ELSE "",
                         !.flag = HasText(data), !.feedback = data.feedback]

GetOptions(options) == Op("options", IF options = <<>> THEN "empty" ELSE "some")

\* bot.notion.create_task(...): url is the link returned (Mine: resolved when run)
Create(action, project, deadline, ok) ==
    [Op("create", IF ok THEN "ok" ELSE "fail")
     EXCEPT !.tag = action, !.project = project, !.deadline = deadline,
            !.url = IF ok THEN Mine ELSE None]

\* the write of lines 481-483: the record as it is then, with the error count
SetErrors(n) == [Op("set_errors", "") EXCEPT !.rec = Data("waiting_task_details", None, n)]

\* an exception raised without an await: None + str (lines 429 and 542), or
\* the one the refused purge of line 574 lets out of handle
Raise(kind) == Op("raise", kind)

\* create_task can return a link only while fewer than MaxCreate exist
OkSet(n) == IF n < MaxCreate THEN BOOLEAN ELSE {FALSE}

----------------------------------------------------------------------------
(* handle, lines 345-590: the dispatch on the classifier's action.          *)
(* state_entry is the thread's record when the classifier returns.          *)

\* the clarification sent without the state written
RequestProjectNoState(project_raw, options) ==
    << Send(IF options # <<>> THEN "clarify_options" ELSE "clarify") >>

\* lines 173-187
_request_project(project_raw, options) ==
    << Send(IF options # <<>> THEN "clarify_options" ELSE "clarify"),
       Set(Data("waiting_task_details", None, NoErrors)) >>

\* lines 412-431: create_task returned a link; with a feedback of None the
\* += of line 429 raises TypeError, which leaves handle before the
\* confirmation of line 431
ApproveCreated(data, team) ==
    <<Set(Data("approved", Mine, NoErrors))>> \o
    (IF team THEN <<SendTeam("team_notify")>> ELSE <<>>) \o
    IF data.feedback = "none" THEN <<Raise("none_plus_str")>>
    ELSE <<SendEmbed("confirmation")>>

\* the failure handled as a missing detail
ApproveFailedAsksAgain ==
    <<Send("create_error"), Set(Data("waiting_task_details", None, NoErrors))>>

\* lines 405-410: create_task returned None
ApproveFailed == <<Send("create_error")>>

\* approve without the check of the link already stored
ApproveUnguarded(state_entry, data, options, fetch_ok, ok, team) ==
    LET deadline == _normalize_deadline(data.deadline, ReferenceDate)
        project == _match_project_option(data.project, options)
    IN <<GetOptions(options)>> \o
       IF project = NoText THEN _request_project(data.project, options)
       ELSE << Op("fetch", IF fetch_ok THEN "ok" ELSE "fail"),
               Create("approve", project, deadline, ok) >> \o
            IF ~ok THEN ApproveFailed ELSE ApproveCreated(data, team)

\* lines 358-431
Approve(state_entry, data, options, fetch_ok, ok, team) ==
    LET existing_notion_url == state_entry.notion_url
        deadline == _normalize_deadline(data.deadline, ReferenceDate)
        project == _match_project_option(data.project, options)
    IN IF existing_notion_url # None
       THEN << SendEmbed("already_done"),
               Set(Data("approved", existing_notion_url, NoErrors)) >>
       ELSE <<GetOptions(options)>> \o
            IF project = NoText THEN _request_project(data.project, options)
            ELSE << Op("fetch", IF fetch_ok THEN "ok" ELSE "fail"),
                    Create("approve", project, deadline, ok) >> \o
                 IF ~ok THEN ApproveFailed ELSE ApproveCreated(data, team)

\* lines 433-437
Synthesize(data) ==
    IF HasText(data) THEN <<Send("feedback"), Set(Data("waiting_edit", None, NoErrors))>>
    ELSE <<SendEmpty>>

\* the link returned kept in the record of the draft
CreateTaskCreatedKeepsUrl ==
    <<Send("task_created"), Set(Data("waiting_edit", Mine, NoErrors))>>

\* lines 462-464: create_task returned a link
CreateTaskCreated ==
    <<Send("task_created"), Set(Data("waiting_edit", None, NoErrors))>>

\* the count kept when the threshold is reached
CreateTaskFailedKeepsCount(state_entry) ==
    LET current_errors ==
            (IF state_entry.notion_errors = NoErrors THEN 0
             ELSE state_entry.notion_errors) + 1
    IN IF current_errors >= ErrorThreshold
       THEN << Send("manual_fallback"), Set(Data("waiting_edit", None, current_errors)) >>
       ELSE << Send("retry_error"), SetErrors(current_errors) >>

\* lines 465-483: create_task returned None
CreateTaskFailed(state_entry) ==
    LET current_errors ==
            (IF state_entry.notion_errors = NoErrors THEN 0
             ELSE state_entry.notion_errors) + 1
    IN IF current_errors >= ErrorThreshold
       THEN << Send("manual_fallback"), Set(Data("waiting_edit", None, 0)) >>
       ELSE << Send("retry_error"), SetErrors(current_errors) >>

\* lines 439-489
CreateTask(state_entry, data, options, ok) ==
    LET deadline == _normalize_deadline(data.deadline, ReferenceDate)
        project == _match_project_option(data.project, options)
    IN <<GetOptions(options)>> \o
       IF project # NoText /\ data.title
       THEN <<Create("create_task", project, deadline, ok)>> \o
            IF ok THEN CreateTaskCreated ELSE CreateTaskFailed(state_entry)
       ELSE IF project = NoText THEN _request_project(data.project, options)
       ELSE << Send("no_title"), Set(Data("waiting_task_details", None, NoErrors)) >>

\* lines 491-554; resp is the second classification: kind "error" (not JSON),
\* "invalid" or "valid" (es_valido), with its data.  After a link was returned
\* a feedback of None makes the += of line 542 raise; the empty text does not
ValidateEdit(resp, options, fetch_ok, ok, team) ==
    LET deadline == _normalize_deadline(resp.data.deadline, ReferenceDate)
        project == _match_project_option(resp.data.project, options)
    IN IF ~fetch_ok THEN <<Op("fetch", "fail"), Send("no_read")>>
       ELSE <<Op("fetch", "ok"), Llm("llm2", resp.kind, resp.data)>> \o
            IF resp.kind = "error" THEN <<Send("no_read")>>
            ELSE IF resp.kind = "valid"
            THEN <<GetOptions(options)>> \o
                 IF project = NoText THEN _request_project(resp.data.project, options)
                 ELSE <<Create("validate_edit", project, deadline, ok)>> \o
                      (IF team THEN <<SendTeam("team_notify_edit")>> ELSE <<>>) \o
                      IF ok /\ resp.data.feedback = "none"
                      THEN <<Raise("none_plus_str"), Send("no_read")>>
                      ELSE << SendEmbed("edit_confirmation"), Send("ask_delete"),
                              Set(Data("waiting_delete", None, NoErrors)) >>
            ELSE IF HasText(resp.data) THEN <<Send("feedback")>>
            ELSE <<SendEmpty, Send("no_read")>>

\* lines 556-576; others: the history read holds a message that is not the
\* opening one (line 566: without one delete_messages is not called)
DeleteHistory(history_ok, others, delete_ok) ==
    <<Send("cleaning")>> \o
    (IF ~history_ok THEN <<Op("history_del", "fail"), Op("purge", "ok")>>
     ELSE IF ~others THEN <<Op("history_del", "ok")>>
     ELSE IF ~delete_ok
     THEN <<Op("history_del", "ok"), Op("delete", "fail"), Op("purge", "ok")>>
     ELSE <<Op("history_del", "ok"), Op("delete", "ok")>>) \o
    <<Clear>>

\* lines 556-576 when the history fetch or the bulk delete raises and the
\* purge of line 574, made inside the except, raises too: the exception leaves
\* handle before line 576
DeleteHistoryPurgeRefused(history_ok) ==
    <<Send("cleaning")>> \o
    (IF ~history_ok THEN <<Op("history_del", "fail")>>
     ELSE <<Op("history_del", "ok"), Op("delete", "fail")>>) \o
    <<Op("purge", "fail"), Raise("purge_refused")>>

\* lines 578-580
RequestEdit(data) ==
    IF HasText(data) THEN <<Send("feedback"), Set(Data("waiting_edit", None, NoErrors))>>
    ELSE <<SendEmpty>>

\* lines 582-585
Handoff(data) ==
    IF HasText(data) THEN <<Send("feedback")>> ELSE <<SendEmpty>>

\* the final else asking for the task details
OtherwiseAsksDetails(data) ==
    <<Send("feedback"), Set(Data("waiting_task_details", None, NoErrors))>>

\* lines 587-590
Otherwise(data) == IF HasText(data) THEN <<Send("feedback")>> ELSE <<>>

\* the record dropped when the classification fails
LlmErrorClears(kind) == <<Op("llm", kind), Send("tech_difficulty"), Clear>>

\* lines 345-351
LlmError(kind) == <<Op("llm", kind), Send("tech_difficulty")>>

\* data of approve: every project without a deadline, the matching one with
\* each deadline and with each feedback
ApproveData ==
    {LlmData(p, NoDate, TRUE, "text") : p \in RawProjects}
    \cup {LlmData(<<" ","v","E","x">>, d, TRUE, "text") : d \in Deadlines}
    \cup {LlmData(<<" ","v","E","x">>, NoDate, TRUE, f) : f \in FeedbackValues}
CreateData ==
    {LlmData(p, Date(2024, 2, 29), t, "text") : p \in RawProjects, t \in BOOLEAN}
FeedbackData == {LlmData(NoText, NoDate, FALSE, f) : f \in FeedbackValues}
SecondResponses ==
    {[kind |-> "error", data |-> NoData]}
    \cup {[kind |-> "invalid", data |-> d] : d \in FeedbackData}
    \cup {[kind |-> "valid", data |-> LlmData(p, d, TRUE, f)] :
            p \in RawProjects, d \in {Date(2024, 2, 29)}, f \in FeedbackValues}

\* the actions that fall to the final else: wait, an absent action field (default
\* "wait"), offer_creation and any label the dispatch does not know
OtherActions == {"wait", "", "offer_creation", "other"}

\* every continuation of the turn from the classifier call on, for a record
\* state_entry and n links already returned by create_task for the thread
Dispatch(state_entry, n) ==
    {LlmError(k) : k \in {"error", "invalid_json"}}
    \cup {<<Llm("llm", "approve", d)>> \o Approve(state_entry, d, o, f, ok, team) :
            d \in ApproveData, o \in OptionSets, f \in BOOLEAN, ok \in OkSet(n),
            team \in BOOLEAN}
    \cup {<<Llm("llm", "synthesize", d)>> \o Synthesize(d) : d \in FeedbackData}
    \cup {<<Llm("llm", "create_task", d)>> \o CreateTask(state_entry, d, o, ok) :
            d \in CreateData, o \in OptionSets, ok \in OkSet(n)}
    \cup {<<Llm("llm", "validate_edit", NoData)>> \o ValidateEdit(r, o, f, ok, team) :
            r \in SecondResponses, o \in OptionSets, f \in BOOLEAN, ok \in OkSet(n),
            team \in BOOLEAN}
    \cup {<<Llm("llm", "delete_history", NoData)>> \o DeleteHistory(h, m, d) :
            h \in BOOLEAN, m \in BOOLEAN, d \in BOOLEAN}
    \cup {<<Llm("llm", "request_edit", d)>> \o RequestEdit(d) : d \in FeedbackData}
    \cup {<<Llm("llm", "handoff", d)>> \o Handoff(d) : d \in FeedbackData}
    \cup {<<Llm("llm", a, d)>> \o Otherwise(d) : a \in OtherActions, d \in FeedbackData}

----------------------------------------------------------------------------
(* Running the operations *)

Resolve(data, url) ==
    IF data.notion_url = Mine THEN [data EXCEPT !.notion_url = url] ELSE data

\* st: the thread's record, the links create_task returned for it, the link
\* returned to this turn, the operations done
Exec(st, e) ==
    IF e.op = "set" THEN
        LET data == Resolve(e.rec, st.url)
        IN [st EXCEPT !.rec = _set_thread_state(st.rec, data),
                      !.log = Append(st.log, [e EXCEPT !.rec = data])]
    ELSE IF e.op = "set_errors" THEN
        LET state_data == IF st.rec.present THEN st.rec
                          ELSE Data("waiting_task_details", None, NoErrors)
            data == [state_data EXCEPT !.notion_errors = e.rec.notion_errors]
        IN [st EXCEPT !.rec = _set_thread_state(st.rec, data),
                      !.log = Append(st.log, [e EXCEPT !.rec = data])]
    ELSE IF e.op = "clear" THEN
        [st EXCEPT !.rec = _clear_thread_state(st.rec), !.log = Append(st.log, e)]
    ELSE IF e.op = "create" /\ e.kind = "ok" THEN
        LET url == TaskUrl(Len(st.created) + 1)
        IN [st EXCEPT !.created = Append(st.created, [url |-> url]),
                      !.url = url,
                      !.log = Append(st.log, [e EXCEPT !.url = url])]
    ELSE [st EXCEPT !.log = Append(st.log, e)]

\* the operations that call _set_thread_state or _clear_thread_state
IsWrite(e) == e.op \in {"set", "set_errors", "clear"}

\* no turn completed yet; a task slot without a handler; no store call; no call
NoTurn == [thread |-> 0, pre |-> Absent, log |-> <<>>]
Idle == [pc |-> "idle", todo |-> <<>>, cont |-> "stop", url |-> None,
         thread |-> 0, follow |-> FALSE, pre |-> Absent, log |-> <<>>]
NoCall == [pc |-> "idle", call |-> "none", thread |-> 0, data |-> Absent,
           before |-> <<>>, after |-> <<>>, wrote |-> FALSE, crashed |-> FALSE]
NoProbe == [fn |-> "none"]

----------------------------------------------------------------------------
(* Handler tasks.  discord.py runs on_message (main.py:44-62) as a task of   *)
(* its own for every message, and DesignAgent.handle is a coroutine: it runs *)
(* without interruption from one await to the next and the handler of        *)
(* another message may run in between.  A task holds the thread of its       *)
(* message, the record handle read at line 249 (pre), the operations it has  *)
(* done (log), those still to do (todo), how the handler goes on after them  *)
(* (cont), and the link create_task returned to it.  turn follows the        *)
(* handlers marked follow: when one returns, turn takes its thread, pre and  *)
(* log; after any other step turn is NoTurn.                                 *)

RECURSIVE Chunk(_, _)
\* run the operations up to and including the next await; awaits: the
\* coroutine is suspended at one, and not at its end
Chunk(st, todo) ==
    IF todo = <<>> THEN [st |-> st, rest |-> <<>>, awaits |-> FALSE]
    ELSE LET after == Exec(st, Head(todo))
         IN IF Head(todo).op \in AwaitOps
            THEN [st |-> after, rest |-> Tail(todo), awaits |-> TRUE]
            ELSE Chunk(after, Tail(todo))

\* the task runs its next operations on the thread's record and yields at an
\* await, or reaches the end of handle and returns (or lets the exception
\* out): after its last await the handler is resumed once more to return
Advance(k, thread_id, follow, pre, log, todo, cont, url) ==
    LET c == Chunk([rec |-> state_store[thread_id], created |-> created[thread_id],
                    url |-> url, log |-> <<>>], todo)
        returns == ~c.awaits /\ cont = "stop"
        done == IF follow THEN log \o c.st.log ELSE <<>>
    IN /\ state_store' = StoreAfter(state_store, thread_id, c.st.rec)
       /\ created' = [created EXCEPT ![thread_id] = c.st.created]
       /\ disk' = IF \E i \in 1..Len(c.st.log) : IsWrite(c.st.log[i])
                  THEN _save_state(state_store') ELSE disk
       /\ tasks' = [tasks EXCEPT ![k] =
                      IF returns THEN Idle
                      ELSE [pc |-> "run", todo |-> c.rest, cont |-> cont,
                            url |-> c.st.url, thread |-> thread_id,
                            follow |-> follow, pre |-> pre, log |-> done]]
       /\ turn' = IF returns /\ follow
                  THEN [thread |-> thread_id, pre |-> pre, log |-> done]
                  ELSE NoTurn
       /\ UNCHANGED <<pre_boot, focus, io>>

\* lines 592-618: the starter message is fetched, then the history is read;
\* a failure of either is logged and leaves its part of the context empty
_build_thread_context == <<Op("context", "starter"), Op("context", "history")>>

\* a message of the thread arrives and its handler starts: handle, lines
\* 246-266, up to its first await; rins are the answers the recovery may get
Begin(k, thread_id, rins, follow) ==
    /\ tasks[k].pc = "idle"
    /\ LET state_entry == _get_thread_state(state_store, thread_id)
           e0 == Entry(thread_id, state_entry)
           before ==
               IF e0.cont = "recover"
               THEN {Part(e0.effs \o r.effs, r.cont) :
                       r \in {Recover(thread_id, rin, pre_boot[thread_id]) : rin \in rins}}
               ELSE {e0}
       IN \E p \in before :
             Advance(k, thread_id, follow, IF follow THEN state_entry ELSE Absent, <<>>,
                     p.effs \o (IF p.cont = "classify" THEN _build_thread_context
                                ELSE <<>>),
                     p.cont, None)

\* the handler resumes after an await and runs to its next one, or to its end
TaskStep(k) ==
    /\ tasks[k].pc = "run"
    /\ tasks[k].todo # <<>> \/ tasks[k].cont = "stop"
    /\ Advance(k, tasks[k].thread, tasks[k].follow, tasks[k].pre, tasks[k].log,
               tasks[k].todo, tasks[k].cont, tasks[k].url)
    /\ UNCHANGED probe

\* the handler is about to call the classifier
AtClassifier(k) ==
    /\ tasks[k].pc = "run"
    /\ tasks[k].todo = <<>>
    /\ tasks[k].cont = "classify"

\* the classifier call with the record read for it (lines 345-360)
Called(d, state_entry) == <<[d[1] EXCEPT !.rec = state_entry]>> \o Tail(d)

\* the handler resumes after _build_thread_context: the classifier call
\* (synchronous) and the dispatch d, lines 345-590, up to the next await
Dispatched(k, d) ==
    /\ Advance(k, tasks[k].thread, tasks[k].follow, tasks[k].pre, tasks[k].log,
               Called(d, _get_thread_state(state_store, tasks[k].thread)),
               "stop", tasks[k].url)
    /\ UNCHANGED probe

----------------------------------------------------------------------------
(* Spec: the messages of one thread (handle reads and writes only the key   *)
(* of the message's thread): the allow-listed one, a thread that existed     *)
(* before the boot, or another, created before or after the boot.  Two       *)
(* handlers may be in flight: the one that turn follows, with every answer   *)
(* the recovery and the classifier can get, and the handler of another       *)
(* message.                                                                  *)

Init ==
    /\ disk = NoFile
    /\ io = NoCall
    /\ probe = NoProbe
    /\ state_store = _load_state(disk)
    /\ created = [t \in Threads |-> <<>>]
    /\ focus \in Threads
    /\ pre_boot \in {f \in [Threads -> BOOLEAN] :
                       /\ \A t \in Threads \ {focus} : ~f[t]
                       /\ focus \in existing_exception_thread_ids => f[focus]}
    /\ turn = NoTurn
    /\ tasks = [k \in TaskNames |-> Idle]

\* the answers taken for the handler of a second message
ConcRecoveryInputs(t) ==
    {rin \in RecoveryInputs(t) :
        ~rin.csv.exists /\ rin.api = None /\ rin.starter.ok /\ rin.starter.links = <<>>}

ConcDispatch(state_entry, n) ==
    {LlmError("error")}
    \cup {<<Llm("llm", "approve", d)>> \o Approve(state_entry, d, o, TRUE, ok, TRUE) :
            d \in {LlmData(<<" ","v","E","x">>, NoDate, TRUE, "text")}, o \in OptionSets,
            ok \in OkSet(n)}
    \cup {<<Llm("llm", "request_edit", d)>> \o RequestEdit(d) :
            d \in {LlmData(NoText, NoDate, FALSE, "text")}}

OtherRecoveryInputs(t) ==
    {rin \in ConcRecoveryInputs(t) :
        rin.hist \in {[ok |-> TRUE, msgs |-> <<>>],
                      [ok |-> TRUE, msgs |-> <<Msg(TRUE, "created")>>]}}

OtherDispatch(state_entry, n) ==
    {d \in ConcDispatch(state_entry, n) : d[1].kind # "error"}

\* a message of the thread arrives and its handler starts
Handle ==
    /\ Begin("A", focus, RecoveryInputs(focus), TRUE)
    /\ UNCHANGED probe

\* the classifier answers and the handler dispatches on the action
Classify ==
    /\ AtClassifier("A")
    /\ \E d \in Dispatch(_get_thread_state(state_store, focus), Len(created[focus])) :
          Dispatched("A", d)

\* another message arrives, while the first is being handled or not; the
\* recovery finds the history only
HandleOther(thread_id) ==
    /\ Begin("B", thread_id, OtherRecoveryInputs(thread_id), FALSE)
    /\ UNCHANGED probe

\* its classifier answers approve with a project that matches, request_edit,
\* or fails
ClassifyOther ==
    /\ AtClassifier("B")
    /\ \E d \in OtherDispatch(_get_thread_state(state_store, tasks["B"].thread),
                               Len(created[tasks["B"].thread])) :
          Dispatched("B", d)

\* a second message is taken to arrive in a thread created after the boot
Next ==
    \/ Handle \/ Classify
    \/ ~pre_boot[focus] /\ HandleOther(focus)
    \/ ClassifyOther
    \/ \E k \in TaskNames : TaskStep(k)

Spec == Init /\ [][Next]_vars

----------------------------------------------------------------------------
(* SpecConc: the handlers of two messages of a thread, the classifier taken  *)
(* to answer approve with a project that matches, request_edit, or to fail,  *)
(* and the recovery to find the history only.                                *)

\* a message arrives and its handler starts
TaskBegin(k) ==
    /\ Begin(k, focus, ConcRecoveryInputs(focus), TRUE)
    /\ UNCHANGED probe

\* the classifier answers and the handler dispatches on the action
TaskClassify(k) ==
    /\ AtClassifier(k)
    /\ \E d \in ConcDispatch(_get_thread_state(state_store, focus), Len(created[focus])) :
          Dispatched(k, d)

NextConc ==
    \E k \in TaskNames : TaskBegin(k) \/ TaskStep(k) \/ TaskClassify(k)

SpecConc == Init /\ [][NextConc]_vars

----------------------------------------------------------------------------
(* SpecDisk: the store calls and the state file.  _save_state opens the file *)
(* for writing, which empties it, and then writes the whole store; the       *)
(* process may be killed at any moment and is then started again, which      *)
(* loads the store from the file.  io holds the call made last: its thread   *)
(* and the dict handed to it, the store before and after it, whether         *)
(* json.dump completed, and whether the process was killed while the file    *)
(* was being written.                                                        *)

\* the dicts written: an approved record with its link, a draft with a count
StoreData == {Data("approved", CsvUrl, NoErrors), Data("waiting_task_details", None, 1)}

InitDisk ==
    /\ disk = NoFile
    /\ io = NoCall
    /\ probe = NoProbe
    /\ state_store = _load_state(disk)
    /\ created = [t \in Threads |-> <<>>]
    /\ focus = 1
    /\ pre_boot = [t \in Threads |-> FALSE]
    /\ turn = NoTurn
    /\ tasks = [k \in TaskNames |-> Idle]

\* _save_state up to open(path, "w") (lines 64-67): the open succeeds and
\* empties the file, or raises and the except of line 70 logs it
OpenForWrite(call, thread_id, data, after) ==
    \E opened \in BOOLEAN :
        /\ disk' = IF opened THEN PartialFile ELSE disk
        /\ io' = [pc |-> IF opened THEN "writing" ELSE "idle", call |-> call,
                  thread |-> thread_id, data |-> data,
                  before |-> state_store, after |-> after,
                  wrote |-> FALSE, crashed |-> FALSE]

\* _set_thread_state(thread_id, data), lines 76-80
SetCall(thread_id, data) ==
    /\ io.pc = "idle"
    /\ state_store' = StoreAfter(state_store, thread_id,
                                 _set_thread_state(state_store[thread_id], data))
    /\ OpenForWrite("set", thread_id, data, state_store')
    /\ UNCHANGED <<created, pre_boot, focus, turn, tasks, probe>>

\* _clear_thread_state(thread_id), lines 82-84
ClearCall(thread_id) ==
    /\ io.pc = "idle"
    /\ state_store' = StoreAfter(state_store, thread_id,
                                 _clear_thread_state(state_store[thread_id]))
    /\ OpenForWrite("clear", thread_id, Absent, state_store')
    /\ UNCHANGED <<created, pre_boot, focus, turn, tasks, probe>>

\* json.dump completes and the call returns (lines 68-69)
WriteDone ==
    /\ io.pc = "writing"
    /\ disk' = _save_state(state_store)
    /\ io' = [io EXCEPT !.pc = "idle", !.wrote = TRUE]
    /\ UNCHANGED <<state_store, created, pre_boot, focus, turn, tasks, probe>>

\* json.dump raises (the disk is full): logged at line 71, the call returns
WriteFails ==
    /\ io.pc = "writing"
    /\ io' = [io EXCEPT !.pc = "idle"]
    /\ UNCHANGED <<state_store, disk, created, pre_boot, focus, turn, tasks, probe>>

\* the process is killed: the store in memory is gone, the file is as it is
Crash ==
    /\ io.pc \in {"idle", "writing"}
    /\ io' = [io EXCEPT !.pc = "down", !.crashed = (io.pc = "writing")]
    /\ state_store' = EmptyStore
    /\ UNCHANGED <<disk, created, pre_boot, focus, turn, tasks, probe>>

\* the process starts: __init__ line 18, self.state_store = self._load_state()
\* and line 19, self.boot_time = now: every thread there is was created
\* before it
Restart ==
    /\ io.pc = "down"
    /\ state_store' = _load_state(disk)
    /\ pre_boot' = [t \in Threads |-> TRUE]
    /\ io' = [io EXCEPT !.pc = "idle", !.call = "load"]
    /\ UNCHANGED <<disk, created, focus, turn, tasks, probe>>

NextDisk ==
    \/ \E t \in Threads : \E data \in StoreData : SetCall(t, data)
    \/ \E t \in Threads : ClearCall(t)
    \/ WriteDone
    \/ WriteFails
    \/ Crash
    \/ Restart

SpecDisk == InitDisk /\ [][NextDisk]_vars

----------------------------------------------------------------------------
(* SpecTwo: the messages of two threads, two handlers in flight, with a      *)
(* transport that may refuse a send of the first.  A refused send raises:    *)
(* inside the try of validate_edit (lines 493-554) the except sends "No pude *)
(* leer el mensaje original."; anywhere else the exception leaves handle and *)
(* the rest of the handler is not run.  The classifier of the second         *)
(* handler is taken to answer request_edit, whose write lands between the    *)
(* awaits of the first.                                                      *)

TwoDispatch(state_entry, n) ==
    {LlmError("error")}
    \cup {<<Llm("llm", "approve", d)>> \o Approve(state_entry, d, o, TRUE, ok, TRUE) :
            d \in {LlmData(<<" ","v","E","x">>, NoDate, TRUE, "text")}, o \in OptionSets,
            ok \in OkSet(n)}
    \cup {<<Llm("llm", "create_task", d)>> \o CreateTask(state_entry, d, o, FALSE) :
            d \in {LlmData(<<" ","v","E","x">>, Date(2024, 2, 29), TRUE, "text")},
            o \in OptionSets}
    \cup {<<Llm("llm", "validate_edit", NoData)>> \o
             ValidateEdit(r, o, TRUE, FALSE, TRUE) :
            r \in {[kind |-> "invalid", data |-> LlmData(NoText, NoDate, FALSE, "text")]},
            o \in OptionSets}
    \cup {<<Llm("llm", "delete_history", NoData)>> \o DeleteHistory(h, m, d) :
            h \in BOOLEAN, m \in BOOLEAN, d \in BOOLEAN}
    \cup {<<Llm("llm", "delete_history", NoData)>> \o DeleteHistoryPurgeRefused(h) :
            h \in BOOLEAN}
    \cup {<<Llm("llm", "request_edit", d)>> \o RequestEdit(d) :
            d \in {LlmData(NoText, NoDate, FALSE, "text")}}

\* the send at position i is made inside the try of lines 493-554
InValidateEdit(effs, i) ==
    /\ \E j \in 1..(i - 1) : effs[j].op = "llm" /\ effs[j].kind = "validate_edit"
    /\ effs[i].kind # "no_read"

\* the operations of the turn when the transport refuses the send at position i
SendFails(effs, i) ==
    SubSeq(effs, 1, i - 1) \o <<Op("send_fail", effs[i].kind)>> \o
    IF InValidateEdit(effs, i) THEN <<Send("no_read")>> ELSE <<>>

InitTwo ==
    /\ disk = NoFile
    /\ io = NoCall
    /\ probe = NoProbe
    /\ state_store = _load_state(disk)
    /\ created = [t \in Threads |-> <<>>]
    /\ focus = 1
    /\ pre_boot = [t \in Threads |-> t \in existing_exception_thread_ids]
    /\ turn = NoTurn
    /\ tasks = [k \in TaskNames |-> Idle]

\* a message of the thread arrives and its handler starts
HandleTwo(thread_id) ==
    /\ Begin("A", thread_id, ConcRecoveryInputs(thread_id), TRUE)
    /\ UNCHANGED probe

\* the classifier answers and the handler dispatches, every send accepted
ClassifyTwo ==
    /\ AtClassifier("A")
    /\ \E d \in TwoDispatch(_get_thread_state(state_store, tasks["A"].thread),
                             Len(created[tasks["A"].thread])) :
          Dispatched("A", d)

\* the classifier answers and the handler dispatches, one send refused
HandleSendRefused ==
    /\ AtClassifier("A")
    /\ \E d \in TwoDispatch(_get_thread_state(state_store, tasks["A"].thread),
                             Len(created[tasks["A"].thread])) :
          \E i \in 1..Len(d) :
              /\ d[i].op = "send"
              /\ Dispatched("A", SendFails(d, i))

\* the classifier of the other handler answers request_edit
ClassifyOtherEdit ==
    /\ AtClassifier("B")
    /\ \E d \in {x \in OtherDispatch(_get_thread_state(state_store, tasks["B"].thread),
                                      Len(created[tasks["B"].thread])) :
                    x[1].kind = "request_edit"} :
          Dispatched("B", d)

NextTwo ==
    \/ \E t \in Threads : HandleTwo(t)
    \/ HandleOther(focus)
    \/ ClassifyTwo \/ HandleSendRefused \/ ClassifyOtherEdit
    \/ \E k \in TaskNames : TaskStep(k)

SpecTwo == InitTwo /\ [][NextTwo]_vars

----------------------------------------------------------------------------
(* SpecRoute: AgentManager.route_message (src/adk/manager.py:73-95).  The    *)
(* agents are asked in the order of self.agents, the order in which          *)
(* load_agents found them; one of them is the design agent.  For one message *)
(* an agent's can_handle answers "true" or "false" or raises (the design     *)
(* agent's does not raise), and the handle of another agent returns or       *)
(* raises.  The design agent's handle is the handler of the message's        *)
(* thread: it writes the thread's record and yields at its awaits, and it    *)
(* raises when the transport refuses a send.  probe holds the call: the      *)
(* answers the agents give this message (can, hnd), the agent asked next     *)
(* (i), the agents asked so far (consulted), the agent selected (0: none),   *)
(* whether its handle was called and whether it raised, the errors logged,   *)
(* and where the call is (pc).                                               *)

NumAgents == 3
Agents == 1..NumAgents

InitRoute ==
    /\ disk = NoFile
    /\ io = NoCall
    /\ \E design \in Agents : probe = [fn |-> "none", design |-> design]
    /\ state_store = _load_state(disk)
    /\ created = [t \in Threads |-> <<>>]
    /\ focus = 1
    /\ pre_boot = [t \in Threads |-> FALSE]
    /\ turn = NoTurn
    /\ tasks = [k \in TaskNames |-> Idle]

\* lines 77-78: a message arrives, selected_agent = None, the loop starts
RouteBegin ==
    /\ probe.fn = "none" \/ (probe.fn = "route" /\ probe.pc = "returned")
    /\ \E can \in [Agents -> {"true", "false", "raise"}] : \E hnd \in {"ok", "raise"} :
          /\ can[probe.design] # "raise"
          /\ probe' = [fn |-> "route", pc |-> "loop", design |-> probe.design,
                       can |-> can, hnd |-> hnd, i |-> 1,
                       consulted |-> <<>>, selected |-> 0, handled |-> FALSE,
                       failed |-> FALSE, logged |-> 0]
    /\ turn' = NoTurn
    /\ UNCHANGED <<state_store, created, pre_boot, focus, tasks, disk, io>>

\* the loop goes on to the next agent, or ends after the last one
NextAgent(p) ==
    [p EXCEPT !.i = p.i + 1, !.pc = IF p.i = NumAgents THEN "dispatch" ELSE "loop"]

\* an exception of can_handle leaves route_message
CanHandleEscapes(p) == [p EXCEPT !.pc = "raised"]

\* lines 83-84: except Exception, the error is logged and the loop goes on
CanHandleRaised(p) == NextAgent([p EXCEPT !.logged = p.logged + 1])

\* lines 79-84: one pass of the loop
CanHandle ==
    /\ probe.fn = "route" /\ probe.pc = "loop"
    /\ LET asked == [probe EXCEPT !.consulted = Append(probe.consulted, probe.i)]
           answer == probe.can[probe.i]
       IN probe' = IF answer = "true"
                   THEN [asked EXCEPT !.selected = probe.i, !.pc = "dispatch"]
                   ELSE IF answer = "false" THEN NextAgent(asked)
                   ELSE CanHandleRaised(asked)
    /\ turn' = NoTurn
    /\ UNCHANGED <<state_store, created, pre_boot, focus, tasks, disk, io>>

\* lines 92-93: handle has returned (the call is over) or raised, which is
\* logged; route_message returns
HandleOver(p, failed) ==
    [p EXCEPT !.pc = "returned", !.failed = failed,
              !.logged = p.logged + (IF failed THEN 1 ELSE 0)]

\* the design agent's handler has yielded at an await, or it has returned or
\* raised: an exception leaves handle when it is the last thing done
AfterHandle(p, task, done) ==
    IF task.pc # "idle" THEN [p EXCEPT !.pc = "handling", !.handled = TRUE]
    ELSE HandleOver([p EXCEPT !.handled = TRUE],
                    /\ done.log # <<>>
                    /\ done.log[Len(done.log)].op \in {"send_fail", "send_empty", "raise"})

\* lines 86-95: the selected agent's handle is called inside try / except
\* Exception and runs to its first await; without a selected agent nothing is
\* done
HandleSelected ==
    /\ probe.fn = "route" /\ probe.pc = "dispatch"
    /\ IF probe.selected = probe.design
       THEN /\ Begin("A", focus, RecoveryInputs(focus), TRUE)
            /\ probe' = AfterHandle(probe, tasks'["A"], turn')
       ELSE /\ probe' = IF probe.selected = 0 THEN [probe EXCEPT !.pc = "returned"]
                        ELSE [probe EXCEPT !.pc = "handling", !.handled = TRUE]
            /\ turn' = NoTurn
            /\ UNCHANGED <<state_store, created, pre_boot, focus, tasks, disk, io>>

\* the design agent's handler resumes after an await
HandleResumes ==
    /\ probe.fn = "route" /\ probe.pc = "handling"
    /\ tasks["A"].pc = "run"
    /\ tasks["A"].todo # <<>> \/ tasks["A"].cont = "stop"
    /\ Advance("A", tasks["A"].thread, TRUE, tasks["A"].pre, tasks["A"].log,
               tasks["A"].todo, tasks["A"].cont, tasks["A"].url)
    /\ probe' = AfterHandle(probe, tasks'["A"], turn')

\* the dispatches of ConcDispatch, every send accepted or one refused
RouteDispatch(state_entry, n) ==
    LET all == ConcDispatch(state_entry, n)
    IN all \cup UNION {{SendFails(d, i) : i \in {j \in 1..Len(d) : d[j].op = "send"}} :
                          d \in all}

\* its classifier answers and it dispatches on the action
HandleClassifies ==
    /\ probe.fn = "route" /\ probe.pc = "handling"
    /\ AtClassifier("A")
    /\ \E d \in RouteDispatch(_get_thread_state(state_store, focus), Len(created[focus])) :
          Advance("A", tasks["A"].thread, TRUE, tasks["A"].pre, tasks["A"].log,
                  Called(d, _get_thread_state(state_store, focus)), "stop", tasks["A"].url)
    /\ probe' = AfterHandle(probe, tasks'["A"], turn')

\* the handle of another agent returns or raises
HandleReturns ==
    /\ probe.fn = "route" /\ probe.pc = "handling"
    /\ probe.selected # probe.design
    /\ probe' = HandleOver(probe, probe.hnd = "raise")
    /\ turn' = NoTurn
    /\ UNCHANGED <<state_store, created, pre_boot, focus, tasks, disk, io>>

NextRoute ==
    \/ RouteBegin \/ CanHandle \/ HandleSelected
    \/ HandleResumes \/ HandleClassifies \/ HandleReturns

SpecRoute == InitRoute /\ [][NextRoute]_vars

\* route_message is not left waiting: every step of it is taken
FairRoute ==
    /\ SpecRoute
    /\ WF_vars(CanHandle) /\ WF_vars(HandleSelected)
    /\ WF_vars(HandleResumes) /\ WF_vars(HandleClassifies) /\ WF_vars(HandleReturns)

----------------------------------------------------------------------------
(* SpecNorm: _normalize_deadline applied to one deadline text and one        *)
(* reference date.  The texts are every calendar day of the years around the *)
(* reference year, written as a date or with a time part, a text that is not *)
(* a date, and no deadline.  probe holds the call and what it returned.      *)

YearSpan == 2

\* reference dates: month and year ends, the days around the end of February
\* in leap and common years
References ==
    { Date(2026, 2, 2), Date(2026, 1, 1), Date(2026, 2, 28), Date(2026, 3, 1),
      Date(2026, 12, 31), Date(2024, 2, 29), Date(2027, 2, 28), Date(2028, 3, 1) }

Days(year) == { <<m, d>> \in (1..12) \X (1..31) : d <= MonthRange(year, m) }

Years(reference_date) == (reference_date.y - YearSpan)..(reference_date.y + YearSpan)

RawDates(reference_date) ==
    {NoDate, BadDate}
    \cup UNION { UNION { {Date(y, md[1], md[2]), DateTime(y, md[1], md[2])} :
                           md \in Days(y) } : y \in Years(reference_date) }

InitNorm ==
    /\ disk = NoFile
    /\ io = NoCall
    /\ \E ref \in References : \E raw \in RawDates(ref) :
          probe = [fn |-> "normalize", pc |-> "called", raw |-> raw, ref |-> ref,
                   out |-> NoDate, again |-> NoDate]
    /\ state_store = _load_state(disk)
    /\ created = [t \in Threads |-> <<>>]
    /\ focus = 1
    /\ pre_boot = [t \in Threads |-> FALSE]
    /\ turn = NoTurn
    /\ tasks = [k \in TaskNames |-> Idle]

\* _normalize_deadline(deadline, reference_dt) returns
Normalize ==
    /\ probe.fn = "normalize" /\ probe.pc = "called"
    /\ probe' = [probe EXCEPT !.pc = "returned",
                              !.out = _normalize_deadline(probe.raw, probe.ref)]
    /\ UNCHANGED <<state_store, created, pre_boot, focus, turn, tasks, disk, io>>

\* the value returned handed to _normalize_deadline again, with the same
\* reference
NormalizeAgain ==
    /\ probe.fn = "normalize" /\ probe.pc = "returned"
    /\ probe' = [probe EXCEPT !.pc = "renormalized",
                              !.again = _normalize_deadline(probe.out, probe.ref)]
    /\ UNCHANGED <<state_store, created, pre_boot, focus, turn, tasks, disk, io>>

NextNorm == Normalize \/ NormalizeAgain

SpecNorm == InitNorm /\ [][NextNorm]_vars

----------------------------------------------------------------------------
(* SpecMatch: _match_project_option applied to one project text and one list *)
(* of options.  The texts are every text of at most MaxLen characters over a *)
(* small alphabet (letters in both cases, a space, an apostrophe) and the    *)
(* ways of writing "no project"; probe holds the call and what it returned.  *)

MaxLen == 3
MatchAlphabet == {"a", "b", "B", " ", "'"}

ShortTexts == UNION { [1..n -> MatchAlphabet] : n \in 1..MaxLen }

NoProjectTexts ==
    { <<"n","o","n","e">>, <<"N","o","n","e">>, <<"n","a">>, <<"N","A">>,
      <<"n","/","a">>, <<"N","/","A">>, <<" ","n","/","a"," ">>,
      <<"n","i","n","g","u","n","o">>, <<"N","i","n","g","u","n","o">>,
      <<"s","i","n"," ","p","r","o","y","e","c","t","o">>,
      <<"S","i","n"," "," ","P","r","o","y","e","c","t","o">> }

MatchTexts == {NoText} \cup ShortTexts \cup NoProjectTexts

\* the lists get_multi_select_options returns: none, names with a space or an
\* apostrophe, names that read as "no project"
MatchOptionLists ==
    { <<>>,
      << <<"A"," ","b">>, <<"B">> >>,
      << <<"a","'","b">>, <<"B","a">> >>,
      << <<"N","o","n","e">>, <<"N","A">>, <<"a","b">> >> }

InitMatch ==
    /\ disk = NoFile
    /\ io = NoCall
    /\ \E raw \in MatchTexts : \E options \in MatchOptionLists :
          probe = [fn |-> "match", pc |-> "called", raw |-> raw, options |-> options,
                   out |-> NoText]
    /\ state_store = _load_state(disk)
    /\ created = [t \in Threads |-> <<>>]
    /\ focus = 1
    /\ pre_boot = [t \in Threads |-> FALSE]
    /\ turn = NoTurn
    /\ tasks = [k \in TaskNames |-> Idle]

\* _match_project_option(project_raw, options) returns
Match ==
    /\ probe.fn = "match" /\ probe.pc = "called"
    /\ probe' = [probe EXCEPT !.pc = "returned",
                              !.out = _match_project_option(probe.raw, probe.options)]
    /\ UNCHANGED <<state_store, created, pre_boot, focus, turn, tasks, disk, io>>

NextMatch == Match

SpecMatch == InitMatch /\ [][NextMatch]_vars

----------------------------------------------------------------------------
(* SpecRecover: the messages of one thread, two handlers in flight, with     *)
(* every answer the history, the mapping file, the Task Store lookup and the *)
(* opening message can give to the recovery, and a classifier that fails,    *)
(* answers handoff, wait, no action, offer_creation, an unknown action,      *)
(* request_edit or delete_history.                                           *)

RecoverDispatch(state_entry, n) ==
    {LlmError("error")}
    \cup {<<Llm("llm", a, d)>> \o Otherwise(d) : a \in OtherActions, d \in FeedbackData}
    \cup {<<Llm("llm", "handoff", d)>> \o Handoff(d) : d \in FeedbackData}
    \cup {<<Llm("llm", "request_edit", d)>> \o RequestEdit(d) :
            d \in {LlmData(NoText, NoDate, FALSE, "text")}}
    \cup {<<Llm("llm", "delete_history", NoData)>> \o DeleteHistory(TRUE, m, TRUE) :
            m \in BOOLEAN}

\* a message of the thread arrives and its handler starts
HandleRecover ==
    /\ Begin("A", focus, RecoveryInputs(focus), TRUE)
    /\ UNCHANGED probe

\* the classifier answers and the handler dispatches on the action
ClassifyRecover ==
    /\ AtClassifier("A")
    /\ \E d \in RecoverDispatch(_get_thread_state(state_store, focus),
                                 Len(created[focus])) :
          Dispatched("A", d)

NextRecover ==
    \/ HandleRecover \/ ClassifyRecover \/ HandleOther(focus) \/ ClassifyOther
    \/ \E k \in TaskNames : TaskStep(k)

SpecRecover == Init /\ [][NextRecover]_vars

----------------------------------------------------------------------------
(* SpecScan: _recover_state_from_history applied to one history: up to       *)
(* ScanLen messages, newest first, each written by the bot or by a user and  *)
(* holding one of the marker phrases or none; the fetch may fail.  probe     *)
(* holds the call and what it returned.                                      *)

ScanLen == 3
ScanMessages == {Msg(b, x) : b \in BOOLEAN, x \in {"other", "delete", "project", "created"}}

ScanHistories ==
    {[ok |-> FALSE, msgs |-> <<>>]}
    \cup {[ok |-> TRUE, msgs |-> ms] : ms \in UNION {[1..n -> ScanMessages] : n \in 0..ScanLen}}

InitScan ==
    /\ disk = NoFile
    /\ io = NoCall
    /\ \E hist \in ScanHistories :
          probe = [fn |-> "scan", pc |-> "called", hist |-> hist, out |-> "init"]
    /\ state_store = _load_state(disk)
    /\ created = [t \in Threads |-> <<>>]
    /\ focus = 1
    /\ pre_boot = [t \in Threads |-> FALSE]
    /\ turn = NoTurn
    /\ tasks = [k \in TaskNames |-> Idle]

\* _recover_state_from_history(channel, thread_id) returns
Scan ==
    /\ probe.fn = "scan" /\ probe.pc = "called"
    /\ probe' = [probe EXCEPT !.pc = "returned",
                              !.out = _recover_state_from_history(probe.hist)]
    /\ UNCHANGED <<state_store, created, pre_boot, focus, turn, tasks, disk, io>>

NextScan == Scan

SpecScan == InitScan /\ [][NextScan]_vars

----------------------------------------------------------------------------
(* Reading the last turn: the handler that returned in the last step *)

IsThreadSend(e) == e.op = "send" /\ e.tag = "thread"
IsCreate(e) == e.op = "create"
IsCreated(e) == e.op = "create" /\ e.kind = "ok"

ThreadSends == SelectSeq(turn.log, IsThreadSend)
CreateCalls == SelectSeq(turn.log, IsCreate)

\* positions of the operations op of the last turn
Positions(op) == {i \in 1..Len(turn.log) : turn.log[i].op = op}

\* the record as the stored dict reads once written
Stored(data) == [data EXCEPT !.updated_at = TRUE]

RECURSIVE Replay(_, _)
\* the record that the writes listed in ops leave, read from the operations themselves
Replay(rec, ops) ==
    IF ops = <<>> THEN rec
    ELSE IF Head(ops).op \in {"set", "set_errors"}
         THEN Replay(Stored(Head(ops).rec), Tail(ops))
    ELSE IF Head(ops).op = "clear" THEN Replay(Absent, Tail(ops))
    ELSE Replay(rec, Tail(ops))

OptionsOf(kind) == IF kind = "some" THEN ProjectOptions ELSE <<>>

\* positions of the handler's _set_thread_state and _clear_thread_state calls
WritePositions == {k \in 1..Len(turn.log) : IsWrite(turn.log[k])}

\* the handler's last write stores the record data
LastWriteIs(data) ==
    \E k \in WritePositions :
        /\ \A m \in WritePositions : m <= k
        /\ turn.log[k].op \in {"set", "set_errors"}
        /\ Stored(turn.log[k].rec) = data

\* the classifier failed in the last turn, at position i
LlmFailedAt(i) ==
    /\ i \in Positions("llm")
    /\ turn.log[i].kind \in {"error", "invalid_json"}

\* the last turn dispatched approve at position i and create_task failed at j
ApproveFailedAt(i, j) ==
    /\ i \in Positions("llm") /\ turn.log[i].kind = "approve"
    /\ j \in Positions("create") /\ turn.log[j].kind = "fail"

----------------------------------------------------------------------------
(* Claims *)

\* C1: for every thread, at most one create_task call ever succeeds, whatever
\* the sequence of messages and classifier outputs.
C1_AtMostOneCreate == \A t \in Threads : Len(created[t]) <= 1

\* C2: once approve has created a record and its link is stored, a later
\* handler of the thread creates nothing and the link stays: one that starts
\* then does nothing at all, and one whose classifier answers approve while the
\* record holds a link makes no create_task call and writes only approved with
\* that same link.
C2_ApproveIdempotent ==
    turn.thread # 0 =>
        /\ (turn.pre.state = "approved" /\ turn.pre.notion_url # None)
           => turn.log = <<>> /\ state_store[turn.thread] = turn.pre
        /\ \A i \in Positions("llm") :
              (turn.log[i].kind = "approve" /\ turn.log[i].rec.notion_url # None)
              => /\ CreateCalls = <<>>
                 /\ \A j \in 1..Len(turn.log) :
                       (IsWrite(turn.log[j]) /\ j > i) =>
                          /\ turn.log[j].op = "set"
                          /\ turn.log[j].rec.state = "approved"
                          /\ turn.log[j].rec.notion_url = turn.log[i].rec.notion_url

\* a handler whose classifier answered approve while the record held the link
\* of a record that approve had created
C2_Witness ==
    \E i \in Positions("llm") :
        /\ turn.log[i].kind = "approve"
        /\ turn.log[i].rec.notion_url.src = "task"
        /\ \E c \in 1..Len(created[turn.thread]) :
              created[turn.thread][c].url = turn.log[i].rec.notion_url

\* C3: a message that arrives when its thread's record is approved changes
\* nothing: the step in which its handler runs leaves the store and the Task
\* Store as they are and performs no operation (classifier call, send,
\* deletion), allow-listed thread or not.
C3_ApprovedTerminal ==
    [][(turn'.thread # 0 /\ turn'.pre.state = "approved") =>
          /\ state_store' = state_store
          /\ created' = created
          /\ disk' = disk
          /\ turn'.log = <<>>]_vars

\* a message was handled in a thread that was already approved
C3_Witness == turn.thread # 0 /\ turn.pre.state = "approved"

\* C4: at the start of a turn, approved short-circuits (allow-listed or not);
\* ignored_existing short-circuits outside the allow-list; ignored_existing in
\* the allow-list is cleared first and the turn goes on with the recovery, as
\* for a thread without a record.
C4_EntryProtocol ==
    turn.thread # 0 =>
        /\ turn.pre.state = "approved" =>
              turn.log = <<>> /\ state_store[turn.thread] = turn.pre
        /\ ( turn.pre.state = "ignored_existing"
             /\ turn.thread \notin existing_exception_thread_ids )
           => turn.log = <<>> /\ state_store[turn.thread] = turn.pre
        /\ ( turn.pre.state = "ignored_existing"
             /\ turn.thread \in existing_exception_thread_ids )
           => /\ Len(turn.log) >= 2
              /\ turn.log[1] = Clear
              /\ turn.log[2].op = "history"

\* a message was handled in an allow-listed thread marked ignored_existing
C4_Witness ==
    /\ turn.thread \in existing_exception_thread_ids
    /\ turn.pre.state = "ignored_existing"

\* C5 as stated: a record holds a link if and only if its state is approved.
C5_UrlIffApproved ==
    \A t \in Threads :
        state_store[t].notion_url # None <=> state_store[t].state = "approved"

\* C5 amended: a record that holds a link is approved; a handler writes
\* approved without a link only when its recovery read the history marker.
C5_UrlOnlyIfApproved ==
    /\ \A t \in Threads :
          state_store[t].notion_url # None => state_store[t].state = "approved"
    /\ \A j \in Positions("set") :
          (turn.log[j].rec.state = "approved" /\ turn.log[j].rec.notion_url = None)
          => \E i \in Positions("history") : i < j /\ turn.log[i].kind = "approved"

\* a record holds a link, found by the recovery or returned by create_task
C5_Witness ==
    \E t \in Threads :
        state_store[t].notion_url # None /\ state_store[t].state = "approved"

\* C6: handlers of two messages of a thread that interleave at their awaits
\* leave what handling the messages one after the other leaves: approve creates
\* at most one record for the thread.
C6_ApproveOnceInterleaved ==
    \A t \in Threads : Len(created[t]) <= 1

\* C6, second part: a handler that started before the thread became approved
\* does not overwrite the approved record.
C6_ApprovedNotOverwritten ==
    [][\A t \in Threads :
         state_store[t].state = "approved" => state_store'[t] = state_store[t]]_vars

\* C7 as stated: after a failed classification the turn has sent the one generic
\* message, made no create_task call, and the thread's record is the one it had
\* at the start of the turn.
C7_LlmErrorNoChange ==
    \A i \in 1..Len(turn.log) :
        LlmFailedAt(i) =>
            /\ ThreadSends = <<Send("tech_difficulty")>>
            /\ CreateCalls = <<>>
            /\ state_store[turn.thread] = turn.pre

\* C7 amended: after a failed classification the handler sends the one generic
\* message and nothing else, calls create_task never, and writes nothing after
\* the classifier call; the handler of a thread that had a record and was not
\* reset writes nothing at all.
C7_LlmErrorWritesNothing ==
    \A i \in 1..Len(turn.log) :
        LlmFailedAt(i) =>
            /\ SubSeq(turn.log, i + 1, Len(turn.log)) = <<Send("tech_difficulty")>>
            /\ ThreadSends = <<Send("tech_difficulty")>>
            /\ CreateCalls = <<>>
            /\ (turn.pre.present /\ turn.pre.state # "ignored_existing")
               => \A j \in 1..Len(turn.log) : ~IsWrite(turn.log[j])

\* the classifier failed in a thread that had a record
C7_Witness ==
    /\ turn.pre.present
    /\ \E i \in 1..Len(turn.log) : LlmFailedAt(i)

\* C8: in a turn of approve, create_task or validate_edit whose extracted
\* project matches none of the options fetched, create_task is not called, the
\* one message sent is the clarification (with the options, when there are any)
\* and the record becomes waiting_task_details.
C8_NoMatchAsks ==
    \A i \in Positions("options") :
        _match_project_option(turn.log[i - 1].project, OptionsOf(turn.log[i].kind)) = NoText
        => /\ CreateCalls = <<>>
           /\ ThreadSends = << Send(IF turn.log[i].kind = "some"
                                    THEN "clarify_options" ELSE "clarify") >>
           /\ state_store[turn.thread]
                = Stored(Data("waiting_task_details", None, NoErrors))

\* the re-classification of validate_edit named a project that matches no option
C8_Witness ==
    \E i \in Positions("options") :
        /\ turn.log[i].kind = "some"
        /\ turn.log[i - 1].op = "llm2"
        /\ turn.log[i - 1].project = <<"F","o","o">>

\* the last turn dispatched approve at position i, fetched the options at o
\* and its create_task call, at j, returned a link
ApproveCreatedAt(i, o, j) ==
    /\ i \in Positions("llm") /\ o \in Positions("options") /\ j \in Positions("create")
    /\ i < o /\ o < j
    /\ turn.log[i].kind = "approve"
    /\ turn.log[j].kind = "ok"

\* what C9 requires of such a turn: one create_task call, with the option
\* matched among those fetched, as written, and the normalized deadline (none
\* stays none, the past leap day 2024-02-29 becomes 2026-02-28 for the
\* reference date 2026-02-02, the date 2026-03-01 is kept); the handler's last
\* write is approved with the link returned; the one reply in the thread is
\* the confirmation
ApproveCompleted(i, o, j) ==
    LET options == OptionsOf(turn.log[o].kind)
    IN /\ Len(CreateCalls) = 1
       /\ turn.log[j].project = _match_project_option(turn.log[i].project, options)
       /\ \E k \in 1..Len(options) : options[k] = turn.log[j].project
       /\ turn.log[j].deadline
            = _normalize_deadline(turn.log[i].deadline, ReferenceDate)
       /\ turn.log[i].deadline = NoDate => turn.log[j].deadline = NoDate
       /\ turn.log[i].deadline = Date(2024, 2, 29)
            => turn.log[j].deadline = Date(2026, 2, 28)
       /\ turn.log[i].deadline = Date(2026, 3, 1)
            => turn.log[j].deadline = Date(2026, 3, 1)
       /\ LastWriteIs(Stored(Data("approved", turn.log[j].url, NoErrors)))
       /\ \E c \in 1..Len(created[turn.thread]) :
             created[turn.thread][c] = [url |-> turn.log[j].url]
       /\ ThreadSends = <<SendEmbed("confirmation")>>

\* C9: in a thread without a record and without recovery signal, when the
\* classifier answers approve with a project that matches an option and
\* create_task returns a link: one create_task call with the option's text and
\* the normalized deadline, the record becomes approved with the link
\* returned, and the one reply in the thread is the confirmation.
C9_ApproveCreates ==
    \A i \in 1..Len(turn.log) : \A o \in 1..Len(turn.log) : \A j \in 1..Len(turn.log) :
        ( /\ ApproveCreatedAt(i, o, j)
          /\ ~turn.pre.present
          /\ turn.log[1] = Op("history", "init") )
        => ApproveCompleted(i, o, j)

\* C9 for an answer whose feedback is a text (the empty one included), in
\* every thread, with a record or a recovery signal or without
C9_ApproveCreatesWithFeedback ==
    \A i \in 1..Len(turn.log) : \A o \in 1..Len(turn.log) : \A j \in 1..Len(turn.log) :
        (ApproveCreatedAt(i, o, j) /\ turn.log[i].feedback # "none")
        => ApproveCompleted(i, o, j)

\* approve with a feedback of None: the record is created and stored, and the
\* TypeError of line 429 leaves handle before a reply is sent in the thread
C9_NoneFeedbackNoReply ==
    \A i \in 1..Len(turn.log) : \A o \in 1..Len(turn.log) : \A j \in 1..Len(turn.log) :
        (ApproveCreatedAt(i, o, j) /\ turn.log[i].feedback = "none")
        => /\ LastWriteIs(Stored(Data("approved", turn.log[j].url, NoErrors)))
           /\ ThreadSends = <<>>
           /\ turn.log[Len(turn.log)] = Raise("none_plus_str")

\* approve created the record of a new thread, with a deadline it had to move
C9_Witness ==
    /\ ~turn.pre.present
    /\ \E i \in Positions("llm") : \E j \in Positions("create") :
          /\ turn.log[1] = Op("history", "init")
          /\ turn.log[i].kind = "approve"
          /\ turn.log[j].kind = "ok"
          /\ turn.log[i].deadline = Date(2024, 2, 29)
          /\ turn.log[j].deadline = Date(2026, 2, 28)

\* C10 as stated: when the create_task call of approve fails, one error message
\* is sent and the record is the one the thread had before the turn.
C10_CreateFailNoChange ==
    \A i \in 1..Len(turn.log) : \A j \in 1..Len(turn.log) :
        ApproveFailedAt(i, j) =>
            /\ ThreadSends = <<Send("create_error")>>
            /\ state_store[turn.thread] = turn.pre

\* C10 amended: when the create_task call of approve fails, one error message
\* is sent and the handler writes nothing after the classifier call; the
\* handler of a thread that had a record and was not reset writes nothing at
\* all, and the link the classifier call found is none.
C10_CreateFailWritesNothing ==
    \A i \in 1..Len(turn.log) : \A j \in 1..Len(turn.log) :
        ApproveFailedAt(i, j) =>
            /\ ThreadSends = <<Send("create_error")>>
            /\ \A k \in i..Len(turn.log) : ~IsWrite(turn.log[k])
            /\ (turn.pre.present /\ turn.pre.state # "ignored_existing")
               => WritePositions = {}
            /\ turn.log[i].rec.notion_url = None

\* the create_task call of approve failed in a thread that had a record
C10_Witness ==
    /\ turn.pre.present
    /\ \E i \in 1..Len(turn.log) : \E j \in 1..Len(turn.log) : ApproveFailedAt(i, j)

\* the create_task call of the create_task action failed in the last turn
CreateTaskFailedTurn ==
    \E j \in Positions("create") :
        turn.log[j].tag = "create_task" /\ turn.log[j].kind = "fail"

\* the thread's record when the handler called the classifier
RecordAtCall ==
    LET calls == Positions("llm")
    IN IF calls = {} THEN Absent ELSE turn.log[CHOOSE i \in calls : TRUE].rec

\* a failed create_task that found no count (or 0): retry message, count 1
\* written last, with the label the record has when it is written
\* (waiting_task_details for a thread without a record)
FirstFailureHandled ==
    (CreateTaskFailedTurn' /\ RecordAtCall'.notion_errors \in {NoErrors, 0})
    => /\ ThreadSends' = <<Send("retry_error")>>
       /\ state_store'[turn'.thread].notion_errors = 1
       /\ state_store'[turn'.thread].state
            = IF state_store[turn'.thread].present THEN state_store[turn'.thread].state
              ELSE "waiting_task_details"

\* a failed create_task that found the count 1: manual fallback, count 0
SecondFailureHandled ==
    (CreateTaskFailedTurn /\ RecordAtCall.notion_errors = 1)
    => /\ ThreadSends = <<Send("manual_fallback")>>
       /\ state_store[turn.thread] = Stored(Data("waiting_edit", None, 0))

\* C11: two consecutive create_task handlers whose create_task call returns no
\* link: the first keeps the state label (waiting_task_details for a thread
\* without a record), stores the count 1 and sends the retry message; the
\* second, whose classifier call finds that count, sends the manual-fallback
\* message and stores the count 0.
C11_TwoFailuresEscalate ==
    [][FirstFailureHandled /\ SecondFailureHandled']_vars

\* the second of two failed create_task turns has been handled
C11_Witness ==
    /\ CreateTaskFailedTurn
    /\ turn.pre.notion_errors = 1
    /\ RecordAtCall.notion_errors = 1
    /\ ThreadSends = <<Send("manual_fallback")>>

\* a create_task call, made by whichever action, failed in the last turn
AnyCreateFailedTurn ==
    \E j \in Positions("create") : turn.log[j].kind = "fail"

\* C12: whichever action made the call (approve, create_task, validate_edit),
\* a failed create_task call is counted or escalated: the handler sends the
\* manual-fallback message, or the last record it writes holds a count above 0
\* for the next failure to escalate on.
C12_AnyFailuresEscalate ==
    AnyCreateFailedTurn =>
        \/ \E i \in 1..Len(ThreadSends) : ThreadSends[i] = Send("manual_fallback")
        \/ \E k \in WritePositions :
              /\ \A m \in WritePositions : m <= k
              /\ turn.log[k].op \in {"set", "set_errors"}
              /\ turn.log[k].rec.notion_errors >= 1

\* a create_task call returned a link in the last turn
AnyCreatedTurn == \E j \in Positions("create") : turn.log[j].kind = "ok"

\* the last turn sent the manual-fallback message
FallbackSent ==
    \E i \in 1..Len(ThreadSends) : ThreadSends[i] = Send("manual_fallback")

\* the last turn left the thread another state label than the record had when
\* the classifier was called
LabelChanged ==
    /\ turn.thread # 0
    /\ RecordAtCall.present
    /\ state_store[turn.thread].state # RecordAtCall.state

\* C13: after a turn in which a create_task call succeeded, the manual-fallback
\* message was sent or the state label changed, the stored error count is 0 or
\* absent.
C13_CountResets ==
    (turn.thread # 0 /\ (AnyCreatedTurn \/ FallbackSent \/ LabelChanged))
    => state_store[turn.thread].notion_errors \in {NoErrors, 0}

\* C13 without its first case: a handler that sends the manual-fallback
\* message leaves the count 0, and a _set_thread_state call that names a state
\* label stores the count 0 or none
C13_CountResetsOnChange ==
    /\ FallbackSent => state_store[turn.thread].notion_errors = 0
    /\ \A k \in Positions("set") : turn.log[k].rec.notion_errors \in {NoErrors, 0}

\* a _set_thread_state call was made last, on a thread that had a record
SetOverRecord == io.call = "set" /\ io.before[io.thread].present

\* C14 as stated: _set_thread_state merges: a field of the previous record that
\* the call does not name (link, error count) keeps its value, and updated_at
\* is stamped.
C14_SetMergesFields ==
    SetOverRecord =>
        LET fields == io.data
            before == io.before[io.thread]
            after == io.after[io.thread]
        IN /\ fields.notion_url = None => after.notion_url = before.notion_url
           /\ fields.notion_errors = NoErrors
                => after.notion_errors = before.notion_errors
           /\ after.state = fields.state
           /\ after.updated_at

\* C14 amended: _set_thread_state replaces the record: after the call the record
\* holds exactly the fields given and the updated_at stamp; a link or an error
\* count of the previous record that the call does not name is gone, and the
\* records of the other threads are as they were.
C14_SetReplacesRecord ==
    SetOverRecord =>
        LET fields == io.data
            after == io.after[io.thread]
        IN /\ after = [fields EXCEPT !.updated_at = TRUE]
           /\ fields.notion_url = None => after.notion_url = None
           /\ fields.notion_errors = NoErrors => after.notion_errors = NoErrors
           /\ \A t \in Threads \ {io.thread} : io.after[t] = io.before[t]

\* a record with an error count was written over by a call that names the
\* state and a link only
C14_Witness ==
    /\ SetOverRecord
    /\ io.before[io.thread].notion_errors = 1
    /\ io.data.notion_errors = NoErrors
    /\ io.after[io.thread].notion_errors = NoErrors

\* C15: once a _set_thread_state or _clear_thread_state call has returned, the
\* state file holds the store in memory: loading it gives every thread the
\* record that _get_thread_state returns.
C15_FileHoldsStore ==
    (io.pc = "idle" /\ io.call \in {"set", "clear"})
    => _load_state(disk) = state_store

\* C15 for the calls whose json.dump completed: the file loads to the store
C15_FileHoldsStoreWhenWritten ==
    (io.pc = "idle" /\ io.call \in {"set", "clear"} /\ io.wrote)
    => _load_state(disk) = state_store

\* C16: the store loaded after the process was killed during a
\* _set_thread_state or _clear_thread_state call is the store before the call
\* or the store after it.
C16_CrashLeavesBeforeOrAfter ==
    (io.call = "load" /\ io.pc = "idle" /\ io.crashed)
    => state_store \in {io.before, io.after}

\* the threads of the handlers that take the step
StepThreads ==
    {tasks[k].thread : k \in {n \in TaskNames : tasks'[n] # tasks[n]}}
    \cup {tasks'[k].thread : k \in {n \in TaskNames : tasks'[n] # tasks[n]}}
    \cup {turn'.thread}

\* C17: a handler of a message of one thread, whether it runs to its end or
\* stops at a refused send, leaves the record of every other thread as it
\* was: every step changes only the record of the thread of the handler that
\* takes it.
C17_OtherThreadsUntouched ==
    [][ \A t \in Threads :
          state_store'[t] # state_store[t] => t \in StepThreads ]_vars

\* a handler that wrote its thread's record and then had a send refused, while
\* the other thread holds a record
C17_Witness ==
    /\ turn.thread # 0
    /\ \E i \in 1..Len(turn.log) : \E j \in (i + 1)..Len(turn.log) :
          IsWrite(turn.log[i]) /\ turn.log[j].op = "send_fail"
    /\ \E t \in Threads \ {turn.thread} : state_store[t].present

\* C18: an exception raised by an agent's can_handle or handle never leaves
\* route_message; when the loop over the agents is over, every agent that
\* comes before the first one answering true, and that one, has been asked,
\* whichever of them raised; the selected agent is the first that answered
\* true and its handle has been called by the time route_message returns.
C18_RouteCatchesFailures ==
    probe.fn = "route" =>
        /\ probe.pc # "raised"
        /\ probe.pc \in {"dispatch", "returned"} =>
              LET firstTrue == {i \in Agents : /\ probe.can[i] = "true"
                                               /\ \A j \in 1..(i - 1) : probe.can[j] # "true"}
                  last == IF firstTrue = {} THEN NumAgents ELSE CHOOSE i \in firstTrue : TRUE
              IN /\ probe.consulted = [i \in 1..last |-> i]
                 /\ probe.selected = (IF firstTrue = {} THEN 0 ELSE last)
        /\ probe.pc = "returned" => (probe.handled <=> probe.selected # 0)

\* a message for which one agent's can_handle raised, the design agent, asked
\* later, answered true, and its handle wrote the thread's record and then
\* raised; route_message has returned
C18_Witness ==
    /\ probe.fn = "route" /\ probe.pc = "returned"
    /\ probe.failed /\ probe.handled
    /\ probe.selected = probe.design
    /\ \E k \in WritePositions : k < Len(turn.log)
    /\ \E i \in Agents : /\ probe.can[i] = "raise"
                          /\ i < probe.selected
                          /\ probe.logged = 2

\* C18: route_message returns for every message
C18_RouteReturns ==
    (probe.fn = "route" /\ probe.pc = "loop") ~> (probe.fn = "route" /\ probe.pc = "returned")

\* the number of a calendar day, growing with the date
DayNumber(date) == date.y * 10000 + date.m * 100 + date.d

Returned == probe.fn = "normalize" /\ probe.pc = "returned"
Parseable == probe.raw.kind \in {"date", "datetime"}

\* C19: for every deadline text that parses and every reference date, the
\* normalizer returns a calendar date that is the reference date or later.
C19_NeverPast ==
    (Returned /\ Parseable) =>
        /\ probe.out.kind = "date"
        /\ <<probe.out.m, probe.out.d>> \in Days(probe.out.y)
        /\ DayNumber(probe.out) >= DayNumber(probe.ref)

\* a day of an earlier year that has already passed in the reference year and
\* is moved to the next one
C19_Witness ==
    /\ Returned /\ Parseable
    /\ probe.raw.y < probe.ref.y
    /\ probe.out.y = probe.ref.y + 1
    /\ probe.out.m = probe.raw.m

\* the deadlines C20 is about: on or after the reference date, in the
\* reference year or the next
NearFuture ==
    /\ Returned /\ Parseable
    /\ DayNumber(probe.raw) >= DayNumber(probe.ref)
    /\ probe.raw.y \in {probe.ref.y, probe.ref.y + 1}

\* C20 as stated: such a deadline is returned unchanged.
C20_ReturnedUnchanged == NearFuture => probe.out = probe.raw

\* C20: such a deadline is returned as the text YYYY-MM-DD of the same day,
\* so it is unchanged when it was written that way; the reference date itself
\* is not moved.
C20_SameDayReturned ==
    NearFuture =>
        /\ probe.out = Date(probe.raw.y, probe.raw.m, probe.raw.d)
        /\ probe.raw.kind = "date" => probe.out = probe.raw

\* the reference date itself, written as a date, comes back as it is
C20_Witness ==
    /\ NearFuture
    /\ probe.raw = probe.ref
    /\ probe.out = probe.raw

\* the raw month and day in a year, the day not after the month's last one
PlacedIn(year) ==
    Date(year, probe.raw.m,
         IF probe.raw.d > MonthRange(year, probe.raw.m)
         THEN MonthRange(year, probe.raw.m) ELSE probe.raw.d)

\* C21: a deadline of a year before the reference year, or more than one year
\* after it, comes back as its month and day (the day clamped to the month's
\* last) in the reference year when that is the reference date or later, and
\* in the year after otherwise.
C21_OtherYearsRecomputed ==
    (Returned /\ Parseable
       /\ (probe.raw.y < probe.ref.y \/ probe.raw.y > probe.ref.y + 1))
    => probe.out = IF DayNumber(PlacedIn(probe.ref.y)) >= DayNumber(probe.ref)
                   THEN PlacedIn(probe.ref.y)
                   ELSE PlacedIn(probe.ref.y + 1)

\* a 29 February of an earlier year that comes back as a 28 February
C21_Witness ==
    /\ Returned /\ Parseable
    /\ probe.raw.y < probe.ref.y
    /\ probe.raw.m = 2 /\ probe.raw.d = 29
    /\ probe.out.m = 2 /\ probe.out.d = 28

\* a deadline two years after the reference year that comes back in the
\* reference year
C21_WitnessFarFuture ==
    /\ Returned /\ Parseable
    /\ probe.raw.y > probe.ref.y + 1
    /\ probe.out.y = probe.ref.y

Matched == probe.fn = "match" /\ probe.pc = "returned"

\* the letters and digits of a text, in lower case
IsLetterOrDigit(c) == ~IsSpace(c) /\ c \notin {"'", "/"}
AlnumKey(text) ==
    LET kept == SelectSeq(text, IsLetterOrDigit)
    IN [i \in 1..Len(kept) |-> LowerChar(kept[i])]

\* the canonical forms that mean "no project"
NoProjectKeys == { <<"s","i","n","p","r","o","y","e","c","t","o">>, <<"n","i","n","g","u","n","o">>, <<"n","a">>, <<"n","o","n","e">> }
MeansNoProject(text) == AlnumKey(text) = <<>> \/ AlnumKey(text) \in NoProjectKeys

\* C22: a project text is matched to the option that has the same letters and
\* digits in the same order, whatever the case, the whitespace and the
\* punctuation of the two, and the option comes back as it is written.
C22_MatchIgnoresSpacingAndPunctuation ==
    (Matched /\ ~MeansNoProject(probe.raw)) =>
        \A i \in 1..Len(probe.options) :
            ( /\ AlnumKey(probe.options[i]) = AlnumKey(probe.raw)
              /\ \A j \in 1..Len(probe.options) :
                    AlnumKey(probe.options[j]) = AlnumKey(probe.raw) => j = i )
            => probe.out = probe.options[i]

\* C22 for the texts that differ from an option by case and by the amount of
\* whitespace between and around the words only: the option comes back
C22_MatchIgnoresCaseAndPadding ==
    (Matched /\ ~MeansNoProject(probe.raw)) =>
        \A i \in 1..Len(probe.options) :
            ( /\ SplitWords(LowerText(probe.options[i]), <<>>)
                   = SplitWords(LowerText(probe.raw), <<>>)
              /\ \A j \in 1..Len(probe.options) :
                    AlnumKey(probe.options[j]) = AlnumKey(probe.raw) => j = i )
            => probe.out = probe.options[i]

\* C23: a project text whose canonical form is empty or one of sin proyecto,
\* ninguno, n/a, none, na gives no project, whatever the options are.
C23_NoProjectTextsGiveNone ==
    (Matched /\ MeansNoProject(probe.raw)) => probe.out = NoText

\* C23 for the three forms the matcher tests for: sin proyecto, ninguno, n/a
C23_TestedFormsGiveNone ==
    (Matched /\ _canonical_project(probe.raw) \in NegativeProjects) => probe.out = NoText

\* C24: when the recovery of a thread without a record reads the marker of
\* waiting_task_details in the history and the mapping file has the thread's
\* row with a link, the turn ends with the thread approved under that link
\* and the classifier is not called.
C24_MappingOverridesHistory ==
    \A i \in Positions("history") : \A j \in Positions("csv") :
        (turn.log[i].kind = "waiting_task_details" /\ turn.log[j].kind = "url")
        => /\ turn.log[j].url = CsvUrl
           /\ state_store[turn.thread] = Stored(Data("approved", CsvUrl, NoErrors))
           /\ Positions("llm") = {}
           /\ Positions("create") = {}

C24_Witness ==
    /\ turn.pre = Absent
    /\ \E i \in Positions("history") : \E j \in Positions("csv") :
          /\ i < j
          /\ turn.log[i].kind = "waiting_task_details"
          /\ turn.log[j].kind = "url"
    /\ state_store[turn.thread].state = "approved"

\* the last turn ran the recovery (it starts with the history scan)
RecoveryRan == Positions("history") # {}

\* C25: after a turn in which the recovery ran the thread has a record (so
\* that the next message of the thread does not run the recovery again).
C25_RecoveryLeavesRecord == RecoveryRan => state_store[turn.thread].present

\* C25, the consequence: in a thread outside the allow-list a handler that
\* finds a record when it starts does not begin with the history scan
C25_RecoveryRunsOnce ==
    [][ (/\ tasks["A"].pc = "idle"
         /\ tasks'["A"].pc = "run"
         /\ tasks'["A"].pre.present
         /\ tasks'["A"].thread \notin existing_exception_thread_ids)
        => \A i \in 1..Len(tasks'["A"].log) : tasks'["A"].log[i].op # "history" ]_vars

\* C25 for the turns in which a step of the recovery matched or the thread is
\* older than the boot: the record is there and the next turn finds it
C25_MatchLeavesRecord ==
    (RecoveryRan /\ Positions("llm") = {}) => state_store[turn.thread].present

\* the recovery of the last turn matched nothing after the history scan: no
\* row of the mapping file, no task found, no link in the opening message
NothingAfterHistory ==
    /\ \A j \in Positions("csv") : turn.log[j].kind = "none"
    /\ \A j \in Positions("lookup") : turn.log[j].kind = "none"
    /\ \A j \in Positions("fetch_starter") : turn.log[j].kind = "none"

\* C26: a thread whose history scan recovered waiting_task_details or
\* waiting_delete is not marked ignored_existing by the boot-time check: it
\* keeps the recovered state and the turn goes on to the classification.
C26_RecoveredStateKept ==
    \A i \in Positions("history") :
        (turn.log[i].kind \in {"waiting_task_details", "waiting_delete"}
           /\ NothingAfterHistory)
        => /\ \A k \in Positions("set") : turn.log[k].kind # "ignored_existing"
           /\ Positions("llm") # {}

\* C26 for the allow-list: the boot-time check never marks an allow-listed
\* thread; only its row of the mapping file marks it ignored_existing
C26_AllowListNotSuppressed ==
    (turn.thread \in existing_exception_thread_ids /\ NothingAfterHistory)
    => \A k \in Positions("set") : turn.log[k].kind # "ignored_existing"

\* C26 for the threads in which no step matched: older than the boot and
\* outside the allow-list they are marked, otherwise they are classified
C26_SuppressedWhenNothingMatched ==
    \A i \in Positions("history") :
        (turn.log[i].kind = "init" /\ NothingAfterHistory)
        => IF pre_boot[turn.thread] /\ turn.thread \notin existing_exception_thread_ids
           THEN /\ state_store[turn.thread].state = "ignored_existing"
                /\ Positions("llm") = {}
           ELSE Positions("llm") # {}

Scanned == probe.fn = "scan" /\ probe.pc = "returned"

\* the bot-authored messages of the scanned history, newest first
BotMessages == SelectSeq(probe.hist.msgs, LAMBDA m : m.bot)

\* C27: the history scan adopts a state whenever any bot-authored message of
\* the scanned messages holds a marker phrase, not only the newest one.
C27_AnyMarkerAdopted ==
    (Scanned /\ probe.hist.ok) =>
        ( (\E i \in 1..Len(BotMessages) : BotMessages[i].text # "other")
          => probe.out # "init" )

\* C27 as the scan works: the newest bot-authored message decides alone
C27_NewestBotMessageDecides ==
    Scanned =>
        probe.out = IF ~probe.hist.ok \/ BotMessages = <<>> THEN "init"
                    ELSE IF BotMessages[1].text = "delete" THEN "waiting_delete"
                    ELSE IF BotMessages[1].text = "project" THEN "waiting_task_details"
                    ELSE IF BotMessages[1].text = "created" THEN "approved"
                    ELSE "init"

\* the links adopted from the opening message in the last turn
StarterAdopted ==
    { turn.log[k].rec.notion_url : k \in {i \in Positions("set") :
          /\ turn.log[i].kind = "approved"
          /\ turn.log[i].rec.notion_url.src = "starter"} }

\* C28: a link of the opening message makes the thread approved only when it
\* points into the configured database: a link to anything else is rejected.
C28_OnlyOwnDatabaseAdopted ==
    \A url \in StarterAdopted : url = StarterUrl(Link(TRUE, TRUE))
                                 \/ url = StarterUrl(Link(TRUE, FALSE))

\* C28 for the links the scan does reject: one that names the workspace
\* emerald-dev without the database
C28_WorkspaceWithoutDatabaseRejected ==
    \A url \in StarterAdopted : url # StarterUrl(Link(FALSE, TRUE))

\* the classifier answered offer_creation in the last turn, at position i
OfferCreationAt(i) == i \in Positions("llm") /\ turn.log[i].kind = "offer_creation"

\* C29: when the classifier answers offer_creation the handler relays the
\* feedback and makes the thread's record waiting_task_details.
C29_OfferCreationAsksDetails ==
    \A i \in Positions("llm") :
        OfferCreationAt(i)
        => /\ turn.log[i].flag
                => \E j \in Positions("send") : j > i /\ turn.log[j].kind = "feedback"
           /\ \E k \in Positions("set") :
                 k > i /\ turn.log[k].kind = "waiting_task_details"

\* C29 as the dispatch works: offer_creation is answered as wait is, the
\* feedback is sent when there is one and nothing is written
C29_OfferCreationWritesNothing ==
    \A i \in Positions("llm") :
        OfferCreationAt(i)
        => /\ SubSeq(turn.log, i + 1, Len(turn.log))
                = (IF turn.log[i].flag THEN <<Send("feedback")>> ELSE <<>>)

\* the last turn dispatched validate_edit
ValidateEditTurn == \E i \in Positions("llm") : turn.log[i].kind = "validate_edit"

\* the handler writes nothing after its classifier call
LeftAsItWas ==
    \A i \in Positions("llm") : \A k \in WritePositions : k < i

\* validate_edit made the record waiting_delete in the last turn
MovedToWaitingDelete ==
    \E i \in Positions("llm") : \E k \in Positions("set") :
        k > i /\ turn.log[k].kind = "waiting_delete"

\* C30: in validate_edit the thread moves to waiting_delete only when the
\* second classification is valid, the project matches and create_task
\* returned a link; when create_task fails the record is left as it was; when
\* the second classification is invalid the feedback is relayed and the
\* record is left as it was.
C30_ValidateEditAsApprove ==
    ValidateEditTurn =>
        /\ MovedToWaitingDelete
             => /\ \E j \in Positions("llm2") : turn.log[j].kind = "valid"
                /\ \E c \in Positions("create") : turn.log[c].kind = "ok"
        /\ (\E c \in Positions("create") : turn.log[c].kind = "fail")
             => LeftAsItWas
        /\ \A j \in Positions("llm2") :
             (turn.log[j].kind = "invalid" /\ turn.log[j].flag)
             => /\ SubSeq(turn.log, j + 1, Len(turn.log)) = <<Send("feedback")>>
                /\ LeftAsItWas

\* C30 without the creation: the thread moves to waiting_delete only when the
\* second classification is valid and create_task was called for a project
\* that matches an option, and an invalid second classification relays the
\* feedback and writes nothing
C30_ValidateEditChecksProject ==
    ValidateEditTurn =>
        /\ MovedToWaitingDelete
             => /\ \E j \in Positions("llm2") : turn.log[j].kind = "valid"
                /\ \E c \in Positions("create") :
                      \E o \in 1..Len(ProjectOptions) :
                          turn.log[c].project = ProjectOptions[o]
        /\ \A j \in Positions("llm2") :
             (turn.log[j].kind = "invalid" /\ turn.log[j].flag)
             => /\ SubSeq(turn.log, j + 1, Len(turn.log)) = <<Send("feedback")>>
                /\ LeftAsItWas

\* the classifier answered delete_history in the last turn
DeleteHistoryTurn ==
    \E i \in Positions("llm") : turn.log[i].kind = "delete_history"

\* C31: when the classifier answers delete_history the thread has no record at
\* the end of the turn, whatever the transport did: a refused announcement, a
\* failed bulk delete and a failed purge do not keep the record.
C31_DeleteHistoryAlwaysClears ==
    DeleteHistoryTurn => ~state_store[turn.thread].present

\* C31 for a failed history fetch or bulk delete followed by a purge that
\* works: the record is cleared
C31_ClearedWhenPurgeWorks ==
    ( /\ DeleteHistoryTurn
      /\ Positions("send_fail") = {}
      /\ Positions("purge") = {} )
    => ~state_store[turn.thread].present

\* C32: when the classifier answers handoff, wait, no action or an action the
\* dispatch does not know, the turn sends the feedback when it is not empty
\* and nothing else, calls create_task never, and writes nothing to the
\* thread's record.
C32_PassiveActionsWriteNothing ==
    \A i \in Positions("llm") :
        turn.log[i].kind \in ({"handoff"} \cup OtherActions)
        => LET after == SubSeq(turn.log, i + 1, Len(turn.log))
           IN /\ SelectSeq(after, LAMBDA e : e.op = "send")
                   = (IF turn.log[i].flag THEN <<Send("feedback")>> ELSE <<>>)
              /\ \A k \in 1..Len(after) : ~IsCreate(after[k]) /\ ~IsWrite(after[k])
              /\ CreateCalls = <<>>

\* a thread that holds a record and whose message is answered by wait, with
\* the feedback sent
C32_Witness ==
    /\ turn.pre.present
    /\ \E i \in Positions("llm") :
          /\ turn.log[i].kind = "wait"
          /\ turn.log[i].flag
          /\ turn.log[Len(turn.log)] = Send("feedback")
    /\ state_store[turn.thread] = turn.pre

\* the approval embeds of the last turn
EmbedPositions == {i \in Positions("send") : turn.log[i].flag /\ turn.log[i].tag = "thread"}

\* the last turn has a Task Store reference: created in the turn, or stored in
\* the record when the classifier was called
ReferenceExists ==
    \/ \E c \in Positions("create") : turn.log[c].kind = "ok"
    \/ RecordAtCall.notion_url # None

\* C33: the approval embed is sent only in a turn that has a Task Store
\* reference, created in the turn or already stored; a turn whose create_task
\* failed sends plain text only.
C33_EmbedOnlyWithReference ==
    /\ EmbedPositions # {} => ReferenceExists
    /\ (\E c \in Positions("create") : turn.log[c].kind = "fail") => EmbedPositions = {}

\* C33 outside validate_edit: the embed of approve is sent only with a
\* reference, and a failed create_task of approve or create_task is answered
\* in plain text
C33_EmbedOnlyWithReferenceOutsideEdit ==
    ~ValidateEditTurn =>
        /\ EmbedPositions # {} => ReferenceExists
        /\ (\E c \in Positions("create") : turn.log[c].kind = "fail") => EmbedPositions = {}

----------------------------------------------------------------------------
(* NotionHandler.create_task, src/src/services/notion.py lines 302-387: the  *)
(* children blocks handed to pages.create and the link returned, for         *)
(* contents of every length up to MaxContent, a handler enabled or not, and  *)
(* a pages.create that answers or raises.                                    *)

MaxContent == 2100
ContentLimit == 2000

\* a content of n characters: one letter repeated, or three letters in turn
ContentOf(n, varied) ==
    [i \in 1..n |-> IF ~varied THEN "a"
                    ELSE IF i % 3 = 0 THEN "c" ELSE IF i % 3 = 1 THEN "a" ELSE "b"]

Contents == {ContentOf(n, v) : n \in 0..MaxContent, v \in BOOLEAN}

\* content[:2000]
Truncate(content) == SubSeq(content, 1, Min(Len(content), ContentLimit))

\* lines 360-376: no block for an empty content, else one paragraph
children(content) == IF content = <<>> THEN <<>> ELSE <<Truncate(content)>>

InitTrunc ==
    /\ disk = NoFile
    /\ io = NoCall
    /\ \E content \in Contents : \E enabled \in BOOLEAN :
          probe = [fn |-> "create_task", pc |-> "called", content |-> content,
                   enabled |-> enabled, out |-> <<>>, url |-> None]
    /\ state_store = _load_state(disk)
    /\ created = [t \in Threads |-> <<>>]
    /\ focus = 1
    /\ pre_boot = [t \in Threads |-> FALSE]
    /\ turn = NoTurn
    /\ tasks = [k \in TaskNames |-> Idle]

\* create_task(...): None when the handler is not enabled (lines 320-321);
\* else pages.create is called with the children built (378-382) and the
\* link of the new page is returned (383), or it raises and None is returned
\* (384-387)
create_task ==
    /\ probe.fn = "create_task" /\ probe.pc = "called"
    /\ \E answered \in BOOLEAN :
          LET sent == children(probe.content)
              url == TaskUrl(Len(created[focus]) + 1)
              made == probe.enabled /\ answered
          IN /\ probe' = [probe EXCEPT !.pc = "returned",
                                       !.out = IF probe.enabled THEN sent ELSE <<>>,
                                       !.url = IF made THEN url ELSE None]
             /\ created' = IF made
                           THEN [created EXCEPT ![focus] =
                                    Append(@, [url |-> url, children |-> sent])]
                           ELSE created
    /\ UNCHANGED <<state_store, pre_boot, focus, turn, tasks, disk, io>>

NextTrunc == create_task

SpecTrunc == InitTrunc /\ [][NextTrunc]_vars

\* create_task has handed pages.create the children of a non-empty content
Built ==
    /\ probe.fn = "create_task" /\ probe.pc = "returned"
    /\ probe.enabled /\ probe.content # <<>>

\* the paragraph text is the content when it has at most limit characters,
\* else its first limit characters
CutAt(limit) ==
    Built =>
        /\ Len(probe.out) = 1
        /\ LET text == probe.out[1]
               n == Len(probe.content)
           IN /\ Len(text) = (IF n > limit THEN limit ELSE n)
              /\ \A i \in 1..Len(text) : text[i] = probe.content[i]
        /\ probe.url # None
           => created[focus][Len(created[focus])] =
                 [url |-> probe.url, children |-> probe.out]

\* C34: create_task sends at most 1900 characters of content: a longer
\* content is cut to exactly its first 1900 characters, a content of at most
\* 1900 characters is sent unchanged.
C34_ContentCutAt1900 == CutAt(1900)

\* C34 with the limit of the code: the content is cut to its first 2000
\* characters
C34_ContentCutAt2000 == CutAt(2000)

----------------------------------------------------------------------------
(* ConversationMemorySkill, src/agents/design/skills/conversation_memory.py: *)
(* should_create_summary and execute, for every pair of counts up to         *)
(* MaxCount, a memory file absent or holding up to MaxSections summaries,    *)
(* and every outcome of the summary generation.                              *)

MaxCount == 45
MaxSections == 1
SUMMARY_INTERVAL == 20

Counts == 0..MaxCount

\* the thread's memory file: absent, or a header followed by summary sections
NoMemoryFile == [exists |-> FALSE, header |-> FALSE, sections |-> 0]
MemoryFiles ==
    {NoMemoryFile} \cup {[exists |-> TRUE, header |-> TRUE, sections |-> k] : k \in 0..MaxSections}

\* _generate_summary: a summary, whitespace only, an exception of the LLM
\* call, or no prompt template loaded
Generations == {"summary", "blank", "raise", "no_template"}

\* the threshold taken from the last summary count alone
ShouldCreateAfterInterval(current_message_count, last_summary_count) ==
    current_message_count >= last_summary_count + SUMMARY_INTERVAL

\* lines 74-102
should_create_summary(current_message_count, last_summary_count) ==
    LET next_threshold == ((last_summary_count \div SUMMARY_INTERVAL) + 1) * SUMMARY_INTERVAL
    IN current_message_count >= next_threshold

\* lines 186-203: open(file_path, "w") writes the header
_initialize_memory_file(file) == [exists |-> TRUE, header |-> TRUE, sections |-> 0]

\* lines 222-264: None unless the LLM returns text that is not blank
_generate_summary(generation) == IF generation = "summary" THEN "summary" ELSE "none"

\* lines 266-272: open(file_path, "a") adds one section
_append_summary_to_file(file) ==
    [file EXCEPT !.exists = TRUE, !.sections = file.sections + 1]

\* lines 104-185: the value returned, the file left and whether the thread's
\* directory was made
execute(file, current_count, last_summary_count, generation) ==
    IF ~should_create_summary(current_count, last_summary_count)
    THEN [result |-> "none", file |-> file, dir |-> FALSE]
    ELSE LET started == IF ~file.exists THEN _initialize_memory_file(file) ELSE file
             summary == _generate_summary(generation)
         IN IF summary = "none"
            THEN [result |-> "none", file |-> started, dir |-> TRUE]
            ELSE [result |-> "path", file |-> _append_summary_to_file(started), dir |-> TRUE]

InitMemory ==
    /\ disk = NoFile
    /\ io = NoCall
    /\ \E fn \in {"should_create_summary", "execute"}, current \in Counts, last \in Counts,
          file \in MemoryFiles, generation \in Generations :
          /\ fn = "should_create_summary"
                => file = NoMemoryFile /\ generation = "summary"
          /\ probe = [fn |-> fn, pc |-> "called", current |-> current, last |-> last,
                      file |-> file, generation |-> generation,
                      out |-> [result |-> "init", file |-> file, dir |-> FALSE]]
    /\ state_store = _load_state(disk)
    /\ created = [t \in Threads |-> <<>>]
    /\ focus = 1
    /\ pre_boot = [t \in Threads |-> FALSE]
    /\ turn = NoTurn
    /\ tasks = [k \in TaskNames |-> Idle]

\* should_create_summary(context, current, last) returns
ShouldCreateSummary ==
    /\ probe.fn = "should_create_summary" /\ probe.pc = "called"
    /\ probe' = [probe EXCEPT
                   !.pc = "returned",
                   !.out.result = IF should_create_summary(probe.current, probe.last)
                                  THEN "true" ELSE "false"]
    /\ UNCHANGED <<state_store, created, pre_boot, focus, turn, tasks, disk, io>>

\* execute(context, thread_id, messages, ...) returns
Execute ==
    /\ probe.fn = "execute" /\ probe.pc = "called"
    /\ probe' = [probe EXCEPT
                   !.pc = "returned",
                   !.out = execute(probe.file, probe.current, probe.last, probe.generation)]
    /\ UNCHANGED <<state_store, created, pre_boot, focus, turn, tasks, disk, io>>

NextMemory == ShouldCreateSummary \/ Execute

SpecMemory == InitMemory /\ [][NextMemory]_vars

\* the next multiple of the interval above the bucket of the last count
Threshold(last) == (last \div 20 + 1) * 20

Asked == probe.fn = "should_create_summary" /\ probe.pc = "returned"
Executed == probe.fn = "execute" /\ probe.pc = "returned"

\* should_create_summary is true exactly at or above the threshold
ThresholdDecides ==
    Asked => (probe.out.result = "true" <=> probe.current >= Threshold(probe.last))

\* below the threshold execute returns None and leaves the file alone
BelowThresholdNothing ==
    (Executed /\ probe.current < Threshold(probe.last))
    => /\ probe.out.result = "none"
       /\ probe.out.file = probe.file
       /\ ~probe.out.dir

\* C35 as stated: should_create_summary is true exactly when current is at
\* least (last div 20 + 1) * 20; execute below the threshold returns None and
\* neither creates nor appends to the memory file; at or above it execute
\* appends exactly one summary section.
C35_AppendsAtThreshold ==
    /\ ThresholdDecides
    /\ BelowThresholdNothing
    /\ (Executed /\ probe.current >= Threshold(probe.last))
       => probe.out.file.sections = probe.file.sections + 1

\* C35 with the generation: at or above the threshold execute appends exactly
\* one summary section when a summary was generated; when none was (the LLM
\* call fails, answers blank, or no template is loaded) it returns None with
\* no section added, the file created with its header if it was absent.
C35_AppendsWhenGenerated ==
    /\ ThresholdDecides
    /\ BelowThresholdNothing
    /\ (Executed /\ probe.current >= Threshold(probe.last))
       => /\ probe.out.file.exists /\ probe.out.file.header
          /\ IF probe.generation = "summary"
             THEN /\ probe.out.file.sections = probe.file.sections + 1
                  /\ probe.out.result = "path"
             ELSE /\ probe.out.file.sections = probe.file.sections
                  /\ probe.out.result = "none"

\* the second summary of a thread: 40 messages, the last summary at 20
C35_Witness ==
    /\ Executed
    /\ probe.current = 40 /\ probe.last = 20
    /\ probe.file.sections = 1
    /\ probe.out.file.sections = 2
    /\ probe.out.result = "path"

\* 25 messages with the last summary at 20: no summary
C35_WitnessBelow ==
    /\ Asked
    /\ probe.current = 25 /\ probe.last = 20
    /\ probe.out.result = "false"

\* the record is written after position c of the last turn's log with no
\* transport send between the two
WrittenBeforeSend(c) ==
    \E w \in Positions("set") :
        /\ w > c
        /\ \A k \in (c + 1)..(w - 1) : turn.log[k].op # "send"

\* C36: in every turn that creates a Task Store record, the thread's record
\* is written after create_task returns and before any transport send of the
\* turn.
C36_PersistedBeforeSend ==
    \A c \in Positions("create") : turn.log[c].kind = "ok" => WrittenBeforeSend(c)

\* C36 for approve alone: the record with the link is written before the team
\* notification and the confirmation
C36_ApprovePersistsBeforeSend ==
    \A c \in Positions("create") :
        (turn.log[c].kind = "ok" /\ turn.log[c].tag = "approve") => WrittenBeforeSend(c)

\* the labels a stored record can carry
RecordStates ==
    {"waiting_task_details", "waiting_edit", "waiting_delete", "approved", "ignored_existing"}

\* C37: every record written carries one of the five labels and an updated_at
\* stamp; the label init, which stands for a thread without a record, is
\* never stored.
C37_RecordsLabelledAndStamped ==
    /\ \A t \in Threads :
          state_store[t].present
          => state_store[t].state \in RecordStates /\ state_store[t].updated_at
    /\ \A i \in Positions("set") \cup Positions("set_errors") :
          turn.log[i].rec.state \in RecordStates

\* request_edit in a thread without a record: the write of line 580, the
\* handler's last operation, stores waiting_edit with the stamp
C37_Witness ==
    /\ ~turn.pre.present
    /\ Positions("set") # {}
    /\ turn.log[Len(turn.log)] = Set(Data("waiting_edit", None, NoErrors))
    /\ state_store[turn.thread].state = "waiting_edit"
    /\ state_store[turn.thread].updated_at

Renormalized == probe.fn = "normalize" /\ probe.pc = "renormalized"

\* C38: for a fixed reference date the normalizer is idempotent on deadline
\* texts that parse, and the year of what it returns is the reference year or
\* the one after.
C38_NormalizeIdempotent ==
    (Renormalized /\ Parseable) =>
        /\ probe.again = probe.out
        /\ probe.out.y \in {probe.ref.y, probe.ref.y + 1}

\* a day of a far year that has passed in the reference year: moved to the
\* next year, and left there by the second call
C38_Witness ==
    /\ Renormalized /\ Parseable
    /\ probe.raw.y > probe.ref.y + 1
    /\ probe.out.y = probe.ref.y + 1
    /\ probe.again = probe.out

\* text is an element of the list of options
IsOptionOf(text, options) == \E i \in 1..Len(options) : options[i] = text

\* C39: the matcher returns no project or, as written, an element of the
\* options it was given; every create_task call of a turn carries a project
\* that is an element of the options fetched earlier in that turn.
C39_ProjectFromOptions ==
    /\ Matched => (probe.out = NoText \/ IsOptionOf(probe.out, probe.options))
    /\ \A c \in Positions("create") :
          \E o \in Positions("options") :
              /\ o < c
              /\ IsOptionOf(turn.log[c].project, OptionsOf(turn.log[o].kind))

\* create_task called for the option "Vex" when the classifier wrote " vEx"
C39_Witness ==
    \E c \in Positions("create") : \E i \in Positions("llm") \cup Positions("llm2") :
        /\ i < c
        /\ turn.log[i].project = <<" ","v","E","x">>
        /\ turn.log[c].project = <<"V","e","x">>

\* the matcher returning an option that differs from the text it was given
C39_WitnessMatch ==
    /\ Matched
    /\ probe.out # NoText
    /\ probe.out # probe.raw
    /\ IsOptionOf(probe.out, probe.options)

----------------------------------------------------------------------------
(* The link utility, src/src/utilities/notion.py, and on_message,            *)
(* src/src/main.py lines 44-62.  discord.py starts on_message as a task of   *)
(* its own for every message and nothing in it waits for the call of an      *)
(* earlier message: two calls may be in flight, each suspended at an await   *)
(* of the utility (webhooks, create_webhook, to_file, send, delete) or of    *)
(* the handler route_message hands the message to.  The content is described *)
(* by what the utility finds in it.  probe.calls holds, for each call, its   *)
(* message, the calls of the utility that are over (out), whether the agents *)
(* were asked (routed) and the thread DesignAgent.handle was called with     *)
(* (handler, 0 when it was not called); probe.messages counts the messages.  *)

INTAKE_CHANNEL_ID == "1458858450355224709"
OtherParentId == "1207375472955232266"

LinkChannelIds == {1, 2}
LinkMessageIds == {1, 2, 3}
MaxAttachments == 2
MaxMessages == 3

\* content: no Notion domain; the domain without a URL the pattern finds; a
\* URL without a page id; a URL of a page
LinkContents == {"plain", "domain", "url", "page_url"}

\* the first transport or API call that raises, if any
LinkFailures == {"none", "webhooks", "create_webhook", "to_file", "send", "delete"}

\* attachments: the number of files of the message; elsewhere: an agent asked
\* before the design agent answers that it can handle the message.  What the
\* code never looks at is left at one value: nothing of a bot's message is
\* read; the parent is read only of a thread, and the ids of the message and
\* of the channel only in a thread of the intake forum (message 3 is not an
\* opening message); the page is looked up only for a URL of a page, and the
\* webhook, the files and the failing call are met only when a link is
\* replaced, which the opening message of an intake thread never is; a call
\* that raises comes with the webhook and the files it needs and no more
LinkMessages ==
    {m \in [ id : LinkMessageIds, bot : BOOLEAN,
             thread : BOOLEAN, channel_id : LinkChannelIds,
             parent_id : {INTAKE_CHANNEL_ID, OtherParentId},
             content : LinkContents, info : BOOLEAN, webhook : BOOLEAN,
             attachments : 0..MaxAttachments,
             fails : LinkFailures, elsewhere : BOOLEAN ] :
        /\ m.bot => ~m.thread /\ m.content = "plain" /\ ~m.elsewhere
        /\ ~m.thread => m.parent_id = OtherParentId
        /\ m.parent_id = OtherParentId => m.id = 3 /\ m.channel_id = 1
        /\ m.parent_id = INTAKE_CHANNEL_ID => m.id \in {m.channel_id, 3}
        /\ m.info => m.content = "page_url"
        /\ ~m.info => m.webhook /\ m.attachments = 0 /\ m.fails = "none"
        /\ (m.parent_id = INTAKE_CHANNEL_ID /\ m.id = m.channel_id)
           => m.webhook /\ m.attachments = 0 /\ m.fails = "none"
        /\ m.fails # "none" => /\ m.webhook = (m.fails # "create_webhook")
                               /\ m.attachments = IF m.fails = "to_file" THEN 1 ELSE 0}

\* the messages taken to follow the first: a person's, without a link, in a
\* thread of the intake forum, for the design agent
LaterMessages ==
    {m \in LinkMessages : /\ ~m.bot /\ m.content = "plain" /\ ~m.elsewhere
                          /\ m.thread /\ m.parent_id = INTAKE_CHANNEL_ID}

LinkResult(result, calls) == [result |-> result, calls |-> calls]

\* the calls made until the first that raises
UntilFailure(calls, fails) ==
    LET bad == {i \in 1..Len(calls) : calls[i] = fails}
    IN IF bad = {} THEN calls
       ELSE SubSeq(calls, 1, (CHOOSE i \in bad : \A j \in bad : i <= j) - 1)
            \o <<"raise_" \o fails>>

\* lines 27-88; line 72 downloads the attachments one by one before the send
Rewrite(message) ==
    LET replacements_made == message.content = "page_url" /\ message.info
        files == [a \in 1..message.attachments |-> "to_file"]
        planned == <<"webhooks">>
                   \o (IF message.webhook THEN <<>> ELSE <<"create_webhook">>)
                   \o files
                   \o <<"send", "delete">>
        calls == UntilFailure(planned, message.fails)
    IN IF message.content = "plain" THEN LinkResult(FALSE, <<>>)
       ELSE IF message.content = "domain" THEN LinkResult(FALSE, <<>>)
       ELSE IF ~replacements_made THEN LinkResult(FALSE, <<>>)
       ELSE LinkResult(calls = planned, calls)

\* the utility without the check of lines 16-25
ProcessEveryMessage(message) == Rewrite(message)

\* lines 5-88
process_notion_links(message) ==
    LET is_starter == message.id = message.channel_id
        is_intake_thread == message.parent_id = INTAKE_CHANNEL_ID
    IN IF message.thread /\ is_starter /\ is_intake_thread
       THEN LinkResult(FALSE, <<>>)
       ELSE Rewrite(message)

\* DesignAgent.can_handle, agent.py lines 230-243
can_handle(message) ==
    /\ ~message.bot
    /\ message.thread
    /\ message.parent_id = INTAKE_CHANNEL_ID

\* on_message was called with the message and has not run yet
NewCall(message) ==
    [pc |-> "called", message |-> message, out |-> LinkResult(FALSE, <<>>),
     routed |-> FALSE, handler |-> 0]

\* no on_message call
NoMessage == [pc |-> "idle"]

\* the call is suspended at an await, or was started and has not run yet
InFlight(call) == call.pc \in {"called", "utility", "handling", "elsewhere"}

InitLinks ==
    /\ disk = NoFile
    /\ io = NoCall
    /\ \E message \in LinkMessages :
          probe = [fn |-> "on_message", messages |-> 1,
                   calls |-> [k \in TaskNames |->
                                IF k = "A" THEN NewCall(message) ELSE NoMessage]]
    /\ state_store = _load_state(disk)
    /\ created = [t \in Threads |-> <<>>]
    /\ focus = 1
    /\ pre_boot = [t \in Threads |-> FALSE]
    /\ turn = NoTurn
    /\ tasks = [k \in TaskNames |-> Idle]

\* nothing of the design agent is touched in the step
NoHandler ==
    /\ turn' = NoTurn
    /\ UNCHANGED <<state_store, created, pre_boot, focus, tasks, disk, io>>

\* main.py lines 44-47: a message written by a bot is dropped
OnBotMessage(k) ==
    /\ probe.fn = "on_message" /\ probe.calls[k].pc = "called"
    /\ probe.calls[k].message.bot
    /\ probe' = [probe EXCEPT !.calls[k].pc = "dropped"]
    /\ NoHandler

\* the handler has yielded at an await, or it is over (it returned, or raised
\* and manager.py line 93 logged it) and on_message goes on to
\* process_commands, line 62
Handed(call, task) ==
    [call EXCEPT !.routed = TRUE, !.handler = call.message.channel_id,
                 !.pc = IF task.pc = "idle" THEN "returned" ELSE "handling"]

\* what fetch_message(thread_id) gives the recovery of the handler (agent.py
\* lines 193-209): the opening message of the thread.  When the message handled
\* is the opening message, its links are those of its content: the pattern of
\* line 197 is the one of the utility, so a content with a URL has a link and
\* one without has none; for a later message the opening message is any
LinkStarters(message) ==
    IF message.id = message.channel_id
    THEN {starter \in Starters :
            \/ ~starter.ok
            \/ (starter.links # <<>>) = (message.content \in {"url", "page_url"})}
    ELSE Starters

\* the answers the recovery gets for the message: a history without a
\* message of the bot, no mapping file, no task found by the lookup
LinkRecoveryInputs(message) ==
    {rin \in RecoveryInputs(message.channel_id) :
        /\ rin.hist = [ok |-> TRUE, msgs |-> <<>>]
        /\ ~rin.csv.exists /\ rin.api = None /\ rin.starter \in LinkStarters(message)}

\* main.py lines 57-62 with manager.py lines 77-95: the agents are asked; the
\* design agent's handle is called and runs to its first await
RouteMessage(k, call) ==
    IF call.message.elsewhere
    THEN /\ probe' = [probe EXCEPT !.calls[k] =
                        [call EXCEPT !.routed = TRUE, !.pc = "elsewhere"]]
         /\ NoHandler
    ELSE IF can_handle(call.message)
    THEN /\ Begin(k, call.message.channel_id, LinkRecoveryInputs(call.message), k = "A")
         /\ probe' = [probe EXCEPT !.calls[k] = Handed(call, tasks'[k])]
    ELSE /\ probe' = [probe EXCEPT !.calls[k] =
                        [call EXCEPT !.routed = TRUE, !.pc = "returned"]]
         /\ NoHandler

\* main.py lines 49-62 up to the first await: the utility is called; when it
\* returns False without a call of the transport the agents are asked
OnMessage(k) ==
    /\ probe.fn = "on_message" /\ probe.calls[k].pc = "called"
    /\ ~probe.calls[k].message.bot
    /\ LET call == probe.calls[k]
           handled_by_utility == process_notion_links(call.message)
       IN IF handled_by_utility.calls = <<>>
          THEN RouteMessage(k, [call EXCEPT !.out = handled_by_utility])
          ELSE probe' = [probe EXCEPT !.calls[k].pc = "utility"] /\ NoHandler

\* the call the utility awaits is over, or has raised: the utility goes on to
\* its next call, or returns, and then on_message returns (the message was
\* replaced, lines 52-55) or asks the agents
UtilityResumes(k) ==
    /\ probe.fn = "on_message" /\ probe.calls[k].pc = "utility"
    /\ LET call == probe.calls[k]
           handled_by_utility == process_notion_links(call.message)
           n == Len(call.out.calls) + 1
           over == n = Len(handled_by_utility.calls)
           sofar == [call EXCEPT !.out =
                        LinkResult(over /\ handled_by_utility.result,
                                   SubSeq(handled_by_utility.calls, 1, n))]
       IN IF ~over THEN probe' = [probe EXCEPT !.calls[k] = sofar] /\ NoHandler
          ELSE IF handled_by_utility.result
          THEN /\ probe' = [probe EXCEPT !.calls[k] = [sofar EXCEPT !.pc = "returned"]]
               /\ NoHandler
          ELSE RouteMessage(k, sofar)

\* the design agent's handler resumes after an await
HandlerResumes(k) ==
    /\ probe.fn = "on_message" /\ probe.calls[k].pc = "handling"
    /\ tasks[k].pc = "run"
    /\ tasks[k].todo # <<>> \/ tasks[k].cont = "stop"
    /\ Advance(k, tasks[k].thread, tasks[k].follow, tasks[k].pre, tasks[k].log,
               tasks[k].todo, tasks[k].cont, tasks[k].url)
    /\ probe' = [probe EXCEPT !.calls[k] = Handed(probe.calls[k], tasks'[k])]

\* its classifier answers and it dispatches on the action
HandlerClassifies(k) ==
    /\ probe.fn = "on_message" /\ probe.calls[k].pc = "handling"
    /\ AtClassifier(k)
    /\ LET thread_id == tasks[k].thread
       IN \E d \in ConcDispatch(_get_thread_state(state_store, thread_id),
                                Len(created[thread_id])) :
             Advance(k, thread_id, tasks[k].follow, tasks[k].pre, tasks[k].log,
                     Called(d, _get_thread_state(state_store, thread_id)),
                     "stop", tasks[k].url)
    /\ probe' = [probe EXCEPT !.calls[k] = Handed(probe.calls[k], tasks'[k])]

\* the handle of the agent that took the message is over
ElsewhereReturns(k) ==
    /\ probe.fn = "on_message" /\ probe.calls[k].pc = "elsewhere"
    /\ probe' = [probe EXCEPT !.calls[k].pc = "returned"]
    /\ NoHandler

\* on_message is called with another message, whatever the call of an earlier
\* message is doing: the call is "A" when that one is over, and "B" when "A" is
\* suspended at an await (the event loop runs the calls in the order they
\* were started, so a call that has not run yet runs before the next one);
\* a message in flight is not delivered again
NextMessage(k) ==
    /\ probe.fn = "on_message" /\ ~InFlight(probe.calls[k])
    /\ k = "B" => probe.calls["A"].pc \in {"utility", "handling", "elsewhere"}
    /\ probe.messages < MaxMessages
    /\ \E message \in LaterMessages :
          /\ \A j \in TaskNames \ {k} :
                InFlight(probe.calls[j]) => probe.calls[j].message.id # message.id
          /\ probe' = [probe EXCEPT !.calls[k] = NewCall(message),
                                    !.messages = probe.messages + 1]
    /\ NoHandler

NextLinks ==
    \/ \E k \in TaskNames : OnBotMessage(k)
    \/ \E k \in TaskNames : OnMessage(k)
    \/ \E k \in TaskNames : UtilityResumes(k)
    \/ \E k \in TaskNames : HandlerResumes(k)
    \/ \E k \in TaskNames : HandlerClassifies(k)
    \/ \E k \in TaskNames : ElsewhereReturns(k)
    \/ \E k \in TaskNames : NextMessage(k)

SpecLinks == InitLinks /\ [][NextLinks]_vars

\* on_message has called the utility for call k, whose message opens a thread
\* of the intake forum
StarterHandled(k) ==
    /\ probe.fn = "on_message"
    /\ probe.calls[k].pc \notin {"idle", "called", "dropped"}
    /\ probe.calls[k].message.thread
    /\ probe.calls[k].message.id = probe.calls[k].message.channel_id
    /\ probe.calls[k].message.parent_id = INTAKE_CHANNEL_ID

\* C40: for the opening message of an intake-forum thread (its id is the
\* thread's id) the link utility returns False without a call of the
\* transport: it sends nothing through a webhook and deletes nothing; the
\* message is handed to the agents as it is, the design agent can handle it,
\* and unless an agent asked before it took the message its handler is called
\* with that message's thread, whatever the call of another message is doing.
C40_StarterNeverRewritten ==
    \A k \in TaskNames :
        StarterHandled(k) =>
            LET call == probe.calls[k]
            IN /\ call.pc # "utility"
               /\ ~call.out.result
               /\ \A i \in 1..Len(call.out.calls) :
                     call.out.calls[i] \notin {"send", "delete"}
               /\ call.out.calls = <<>>
               /\ call.routed
               /\ can_handle(call.message)
               /\ call.message.elsewhere
                  => call.pc \in {"elsewhere", "returned"} /\ call.handler = 0
               /\ ~call.message.elsewhere
                  => /\ call.handler = call.message.channel_id
                     /\ \/ /\ call.pc = "handling"
                           /\ tasks[k].pc = "run"
                           /\ tasks[k].thread = call.message.channel_id
                        \/ call.pc = "returned"

\* an opening message holding the link of a page the Task Store knows: left
\* as it is and handed to the agents; the recovery of the design agent's
\* handler has read the link in it and stored it as approved
C40_Witness ==
    /\ StarterHandled("A")
    /\ probe.calls["A"].pc = "returned"
    /\ probe.calls["A"].message.content = "page_url" /\ probe.calls["A"].message.info
    /\ probe.calls["A"].out = LinkResult(FALSE, <<>>)
    /\ probe.calls["A"].routed
    /\ probe.calls["A"].handler = probe.calls["A"].message.channel_id
    /\ turn.thread = probe.calls["A"].message.channel_id
    /\ turn.log[Len(turn.log)].op = "set"
    /\ turn.log[Len(turn.log) - 1].op = "fetch_starter"
    /\ state_store[turn.thread].state = "approved"
    /\ state_store[turn.thread].notion_url.src = "starter"

\* the same message later in the thread, with a file, is replaced
C40_WitnessReply ==
    /\ probe.fn = "on_message" /\ probe.calls["A"].pc = "returned"
    /\ probe.calls["A"].message.thread
    /\ probe.calls["A"].message.id # probe.calls["A"].message.channel_id
    /\ probe.calls["A"].message.parent_id = INTAKE_CHANNEL_ID
    /\ probe.calls["A"].out.result
    /\ probe.calls["A"].out.calls = <<"webhooks", "to_file", "send", "delete">>
    /\ ~probe.calls["A"].routed

\* a download that raises leaves the reply as it is: the utility returns False
\* and the message is handed to the agents
C40_WitnessDownloadFails ==
    /\ probe.fn = "on_message" /\ probe.calls["A"].pc = "returned"
    /\ probe.calls["A"].out = LinkResult(FALSE, <<"webhooks", "raise_to_file">>)
    /\ probe.calls["A"].routed
    /\ probe.calls["A"].handler = probe.calls["A"].message.channel_id

\* the handler of an opening message runs while the utility is replacing the
\* message of another call, between its send and its delete
C40_WitnessOverlap ==
    /\ StarterHandled("B")
    /\ probe.calls["B"].pc = "handling"
    /\ probe.calls["A"].pc = "utility"
    /\ probe.calls["A"].out.calls = <<"webhooks", "send">>
    /\ probe.calls["A"].message.channel_id = probe.calls["B"].message.channel_id

====
